---- MODULE Spec2Model ----
(***************************************************************************)
(* Verification model of the DeepSearch stack.                             *)
(*                                                                         *)
(*  - the /deepsearch streaming endpoint and the DeepSearchEngine pipeline *)
(*    (services/deepsearch/main.py, services/deepsearch/core/engine.py)    *)
(*  - the LLM gateway circuit breaker                                      *)
(*    (services/llm_gateway/services/circuit_breaker.py)                   *)
(*  - the LLM gateway rate limiter: token bucket, sliding window and the   *)
(*    RateLimiter built from them                                          *)
(*    (services/llm_gateway/services/rate_limiter.py)                      *)
(*  - the search fan-out's deduplication                                   *)
(*    (services/search-gateway/main.py, services/search-agent/main.py)     *)
(*  - the LLM gateway's provider manager and streaming completions         *)
(*    (services/llm_gateway/services/provider_manager.py,                  *)
(*    services/llm_gateway/enhanced_api_gateway.py)                        *)
(*                                                                         *)
(* Each subsystem has its own specification over its own variables; the    *)
(* variables of the other subsystems stay at their initial values.         *)
(***************************************************************************)
EXTENDS Integers, Sequences, FiniteSets, TLC

(***************************************************************************)
(* Bounds of the exploration.                                              *)
(***************************************************************************)
\* search results returned by the search gateway
MaxResults == 2
\* content fragments the LLM gateway streams for one synthesis
MaxFragments == 2
\* chunks the vector store returns for one query
MaxChunks == 1

(***************************************************************************)
(* Generic helpers.                                                        *)
(***************************************************************************)
Min(a, b) == IF a <= b THEN a ELSE b

\* Optional[...]: None is the empty sequence, a value v is <<v>>
None == <<>>

Some(t) == <<t>>

\* the elements of s at the positions in keep, from position i on, in order
RECURSIVE SelectIdx(_, _, _)
SelectIdx(s, keep, i) ==
    IF i > Len(s) THEN <<>>
    ELSE (IF i \in keep THEN <<s[i]>> ELSE <<>>) \o SelectIdx(s, keep, i + 1)

(***************************************************************************)
(* PART 1.  /deepsearch: the endpoint and the engine pipeline.             *)
(***************************************************************************)
VARIABLES
    request,          \* the DeepSearchRequest (toggles, max_scrape_urls, session_id set or not)
    config,           \* scraping.enabled, rag.enabled, sessions.enabled
    pc,               \* where stream_response / deep_search is suspended
    events,           \* the SSE events written to the client so far
    search_results,   \* engine local: ranked results (URLs)
    scraped_content,  \* engine local: successfully scraped URLs
    rag_chunks,       \* engine local: number of retrieved chunks
    answer_parts,     \* engine local: fragments collected during synthesis
    llm_out,          \* content fragments the LLM gateway has streamed so far
    session_log,      \* messages stored in the session by add_message
    store,            \* chunks the vector store holds
    response,         \* the DeepSearchResponse carried by the complete event
    calls,            \* downstream services the run has called
    faults,           \* downstream services whose call failed in the run
    scrape_order      \* the crawled results in the order their calls completed

\* what a run records about itself
runvars == <<store, response, calls, faults, scrape_order>>

pvars == <<request, config, pc, events, search_results, scraped_content,
           rag_chunks, answer_parts, llm_out, session_log, runvars>>

FragValues == {"Hel", "lo"}

\* text yielded by _stream_synthesis when the LLM call fails
SynthesisErrorText == "**Error during synthesis:**"

Stages == <<"searching", "scraping", "embedding", "retrieving", "synthesizing">>

\* StreamChunk(type=..., data=...)
StreamChunk(t, d) == [type |-> t, data |-> d]

IsTerminal(e) == e.type \in {"complete", "error"}

\* request.enable_scraping and config.scraping_config.get("enabled", True)
ScrapeOn == request.enable_scraping /\ config.scraping_enabled

\* request.enable_rag and config.rag_config.get("enabled", True)
RagOn == request.enable_rag /\ config.rag_enabled

\* request.session_id and storage
SessionOn == request.has_session /\ config.sessions_enabled

\* The engine runs from the statement after one stage to its next yield.
\* Each After* operator gives <<next pc, event yielded>>.
AfterRetrieve ==
    IF request.enable_synthesis
    THEN <<"synthesizing", StreamChunk("progress", "synthesizing")>>
    ELSE <<"sources", StreamChunk("sources", "")>>

\* variant: the retrieving event is announced as a second embedding event
AfterEmbed_Repeats ==
    IF RagOn
    THEN <<"retrieving", StreamChunk("progress", "embedding")>>
    ELSE AfterRetrieve

AfterEmbed ==
    IF RagOn
    THEN <<"retrieving", StreamChunk("progress", "retrieving")>>
    ELSE AfterRetrieve

AfterScrape(scraped) ==
    IF RagOn /\ scraped # <<>>
    THEN <<"embedding", StreamChunk("progress", "embedding")>>
    ELSE AfterEmbed

AfterSearch ==
    IF ScrapeOn
    THEN <<"scraping", StreamChunk("progress", "scraping")>>
    ELSE AfterScrape(<<>>)

InitPipeline ==
    /\ request \in [enable_scraping : BOOLEAN, enable_rag : BOOLEAN,
                    enable_synthesis : BOOLEAN, has_session : BOOLEAN,
                    max_scrape_urls : 1..MaxResults]
    /\ config \in [scraping_enabled : BOOLEAN, rag_enabled : BOOLEAN,
                   sessions_enabled : BOOLEAN]
    /\ pc = "start"
    /\ events = <<>>
    /\ search_results = <<>>
    /\ scraped_content = <<>>
    /\ rag_chunks = 0
    /\ answer_parts = <<>>
    /\ llm_out = <<>>
    /\ session_log = <<>>
    /\ store \in 0..MaxChunks
    /\ response = <<>>
    /\ calls = {}
    /\ faults = {}
    /\ scrape_order = <<>>

\* add_message: get_session, append, _save_session.  The outcome is the
\* store's: "ok" (saved, returns True), "missing" (no such session,
\* returns False) or "raise" (the backend call raises).
AddMessageOutcomes == {"ok", "missing", "raise"}

add_message(log, role, outcome) ==
    IF outcome = "ok" THEN Append(log, role) ELSE log

\* stream_response up to the first event: the user turn is saved, then the
\* engine yields progress{searching}.
StartStream ==
    /\ pc = "start"
    /\ \E outcome \in AddMessageOutcomes :
         /\ (~SessionOn) => outcome = "ok"
         /\ session_log' = IF SessionOn
                           THEN add_message(session_log, "user", outcome)
                           ELSE session_log
         /\ IF SessionOn /\ outcome = "raise"
            THEN /\ events' = Append(events, StreamChunk("error", "endpoint"))
                 /\ pc' = "closed"
                 /\ faults' = faults \cup {"session"}
            ELSE /\ events' = Append(events, StreamChunk("progress", "searching"))
                 /\ pc' = "searching"
                 /\ faults' = faults
    /\ UNCHANGED <<request, config, search_results, scraped_content,
                   rag_chunks, answer_parts, llm_out>>
    /\ UNCHANGED <<store, response, calls, scrape_order>>

\* _parallel_search: the gateway's ranked list, or [] when the call fails.
SearchOutcomes ==
    {SelectIdx([i \in 1..MaxResults |-> i], 1..n, 1) : n \in 0..MaxResults}

\* variant: the pipeline goes on with an empty result list
after_search_Continues(results) == AfterSearch

\* if not search_results: yield error, return
after_search(results) ==
    IF results = <<>>
    THEN <<"closed", StreamChunk("error", "No search results found")>>
    ELSE AfterSearch

Search ==
    /\ pc = "searching"
    /\ \E ok \in BOOLEAN, res \in SearchOutcomes :
         /\ (~ok) => res = <<>>
         /\ search_results' = res
         /\ faults' = IF ok THEN faults ELSE faults \cup {"search"}
         /\ events' = Append(events, after_search(res)[2])
         /\ pc' = after_search(res)[1]
    /\ calls' = calls \cup {"search"}
    /\ UNCHANGED <<request, config, scraped_content, rag_chunks,
                   answer_parts, llm_out, session_log>>
    /\ UNCHANGED <<store, response, scrape_order>>

\* search_results[:max_urls]
urls_to_scrape(results, max_urls) ==
    SubSeq(results, 1, Min(Len(results), max_urls))

\* variant: the results come back as their calls complete
gather_AsCompleted(tasks, order) == [k \in 1..Len(tasks) |-> tasks[order[k]]]

\* asyncio.gather(*tasks): the results in the order of the awaitables,
\* whatever the order in which they completed
gather(tasks, order) == tasks

\* _parallel_scrape: the first max_urls results are crawled concurrently;
\* failed and too short ones are filtered out of what gather returns.
Scrape ==
    /\ pc = "scraping"
    /\ LET tasks == urls_to_scrape(search_results, request.max_scrape_urls)
       IN  \E order \in Permutations(1..Len(tasks)),
              good \in SUBSET {tasks[i] : i \in 1..Len(tasks)} :
             LET sc == SelectSeq(gather(tasks, order), LAMBDA u : u \in good)
             IN  /\ scrape_order' = [k \in 1..Len(tasks) |-> tasks[order[k]]]
                 /\ scraped_content' = sc
                 /\ faults' = IF Len(sc) < Len(tasks)
                              THEN faults \cup {"crawl"} ELSE faults
                 /\ events' = Append(events, AfterScrape(sc)[2])
                 /\ pc' = AfterScrape(sc)[1]
    /\ calls' = calls \cup {"crawl"}
    /\ UNCHANGED <<request, config, search_results, rag_chunks,
                   answer_parts, llm_out, session_log>>
    /\ UNCHANGED <<store, response>>

\* _embed_documents: one bulk POST /embed with the chunks of every scraped
\* document; an exception of the call is logged and swallowed (the call
\* may have stored the chunks before it failed), the status of the answer
\* is not looked at.
Embed ==
    /\ pc = "embedding"
    /\ \E ok \in BOOLEAN, stored \in BOOLEAN :
         /\ ok => stored
         /\ store' = IF stored
                     THEN Min(MaxChunks, store + Len(scraped_content))
                     ELSE store
         /\ faults' = IF ok THEN faults ELSE faults \cup {"embed"}
    /\ calls' = calls \cup {"embed"}
    /\ events' = Append(events, AfterEmbed[2])
    /\ pc' = AfterEmbed[1]
    /\ UNCHANGED <<request, config, search_results, scraped_content,
                   rag_chunks, answer_parts, llm_out, session_log>>
    /\ UNCHANGED <<response, scrape_order>>

\* _retrieve_chunks: the nearest chunks the store holds (top_k is not below
\* what the store holds here), or [] when the call fails
_retrieve_chunks(held, ok) == IF ok THEN held ELSE 0

Retrieve ==
    /\ pc = "retrieving"
    /\ \E ok \in BOOLEAN :
         /\ rag_chunks' = _retrieve_chunks(store, ok)
         /\ faults' = IF ok THEN faults ELSE faults \cup {"query"}
    /\ calls' = calls \cup {"query"}
    /\ events' = Append(events, AfterRetrieve[2])
    /\ pc' = AfterRetrieve[1]
    /\ UNCHANGED <<request, config, search_results, scraped_content,
                   answer_parts, llm_out, session_log>>
    /\ UNCHANGED <<store, response, scrape_order>>

\* _build_context(rag_chunks if rag_chunks else search_results,
\* scraped_content): one part per chunk, or one part per search result that
\* holds the result's description or, when the result was scraped, the
\* scraped text
_build_context(chunks, results, scraped) ==
    IF chunks > 0
    THEN [i \in 1..chunks |-> [kind |-> "chunk", of |-> i]]
    ELSE [i \in 1..Len(results) |->
            IF \E j \in 1..Len(scraped) : scraped[j] = results[i]
            THEN [kind |-> "scraped", of |-> results[i]]
            ELSE [kind |-> "description", of |-> results[i]]]

\* One resumption of the synthesis loop: _stream_synthesis reads gateway
\* lines until one carries "content" (lines without it, the done and error
\* markers and undecodable lines are skipped), the stream ends, or the call
\* raises, in which case the error text is yielded as one more fragment.
SynthContent ==
    /\ pc = "synthesizing"
    /\ Len(llm_out) < MaxFragments
    /\ \E f \in FragValues :
         /\ llm_out' = Append(llm_out, f)
         /\ answer_parts' = Append(answer_parts, f)
         /\ events' = Append(events, StreamChunk("content", f))
    /\ calls' = calls \cup {"llm"}
    /\ UNCHANGED <<request, config, pc, search_results, scraped_content,
                   rag_chunks, session_log>>
    /\ UNCHANGED <<store, response, faults, scrape_order>>

SynthRaise ==
    /\ pc = "synthesizing"
    /\ answer_parts' = Append(answer_parts, SynthesisErrorText)
    /\ events' = Append(events, StreamChunk("content", SynthesisErrorText))
    /\ pc' = "synthesis_failed"
    /\ calls' = calls \cup {"llm"}
    /\ faults' = faults \cup {"llm"}
    /\ UNCHANGED <<request, config, search_results, scraped_content,
                   rag_chunks, llm_out, session_log>>
    /\ UNCHANGED <<store, response, scrape_order>>

SynthEnd ==
    /\ pc \in {"synthesizing", "synthesis_failed"}
    /\ events' = Append(events, StreamChunk("sources", ""))
    /\ pc' = "sources"
    /\ calls' = calls \cup {"llm"}
    /\ UNCHANGED <<request, config, search_results, scraped_content,
                   rag_chunks, answer_parts, llm_out, session_log>>
    /\ UNCHANGED <<store, response, faults, scrape_order>>

RECURSIVE Join(_)
\* "".join(parts)
Join(parts) == IF parts = <<>> THEN "" ELSE Head(parts) \o Join(Tail(parts))

\* the answer when request.enable_synthesis is off
SynthesisDisabledText == "Search completed. Synthesis disabled."

\* variant: the fragments are joined without the last one
answer_DropsLast(synthesis, parts) ==
    IF synthesis
    THEN Join(SubSeq(parts, 1, Len(parts) - 1))
    ELSE SynthesisDisabledText

\* answer = "".join(answer_parts), or the fixed text
answer(synthesis, parts) ==
    IF synthesis THEN Join(parts) ELSE SynthesisDisabledText

\* DeepSearchResponse(...) of the complete event
DeepSearchResponse ==
    [answer |-> answer(request.enable_synthesis, answer_parts),
     results_scraped |-> Len(scraped_content),
     chunks_retrieved |-> rag_chunks]

\* after sources the engine yields complete
EmitComplete ==
    /\ pc = "sources"
    /\ events' = Append(events, StreamChunk("complete", ""))
    /\ response' = Some(DeepSearchResponse)
    /\ pc' = "complete"
    /\ UNCHANGED <<request, config, search_results, scraped_content,
                   rag_chunks, answer_parts, llm_out, session_log>>
    /\ UNCHANGED <<store, calls, faults, scrape_order>>

\* stream_response after it has written the complete event: the assistant
\* turn is saved; an exception of the store reaches the endpoint's handler,
\* which writes an error event.  Then the engine's generator is exhausted.
SaveAssistant ==
    /\ pc = "complete"
    /\ \E outcome \in AddMessageOutcomes :
         /\ (~SessionOn) => outcome = "ok"
         /\ session_log' = IF SessionOn
                           THEN add_message(session_log, "assistant", outcome)
                           ELSE session_log
         /\ events' = IF SessionOn /\ outcome = "raise"
                      THEN Append(events, StreamChunk("error", "endpoint"))
                      ELSE events
         /\ faults' = IF SessionOn /\ outcome = "raise"
                      THEN faults \cup {"session"} ELSE faults
    /\ pc' = "closed"
    /\ UNCHANGED <<request, config, search_results, scraped_content,
                   rag_chunks, answer_parts, llm_out>>
    /\ UNCHANGED <<store, response, calls, scrape_order>>

\* an exception that reaches deep_search's own handler: raised by a stage
\* outside that stage's try block
PipelineError ==
    /\ pc \in {"scraping", "embedding", "retrieving"}
    /\ events' = Append(events, StreamChunk("error", "Pipeline error"))
    /\ pc' = "closed"
    /\ faults' = faults \cup {"pipeline"}
    /\ UNCHANGED <<request, config, search_results, scraped_content,
                   rag_chunks, answer_parts, llm_out, session_log>>
    /\ UNCHANGED <<store, response, calls, scrape_order>>

\* the client disconnects or the task is cancelled while stream_response is
\* suspended: CancelledError (or GeneratorExit) is raised at the suspension
\* point; it is no Exception, so neither deep_search's nor the endpoint's
\* handler runs and nothing more is written
Cancel ==
    /\ pc \notin {"closed", "cancelled"}
    /\ pc' = "cancelled"
    /\ UNCHANGED <<request, config, events, search_results, scraped_content,
                   rag_chunks, answer_parts, llm_out, session_log, runvars>>

NextPipeline ==
    \/ StartStream
    \/ Search
    \/ Scrape
    \/ Embed
    \/ Retrieve
    \/ SynthContent
    \/ SynthRaise
    \/ SynthEnd
    \/ EmitComplete
    \/ SaveAssistant
    \/ PipelineError

(***************************************************************************)
(* PART 2.  CircuitBreaker (llm_gateway/services/circuit_breaker.py).      *)
(* call() runs on the event loop: its admission check runs without         *)
(* suspension, the wrapped function is awaited, and the outcome is         *)
(* recorded when it returns.  Several calls can await at the same time.    *)
(***************************************************************************)
\* largest failure_threshold, recovery_timeout, half_open_max_calls drawn
MaxThreshold == 2
MaxRecovery == 2
MaxHalfOpen == 2
\* calls that may await the wrapped function at the same time
MaxInFlight == 2
\* call() invocations explored, and the last clock value
MaxBreakerCalls == 6
MaxBreakerTime == 4

VARIABLES
    cb,            \* the CircuitBreaker object's fields
    cb_now,        \* time.time()
    cb_in_flight,  \* calls awaiting the wrapped function
    cb_last,       \* how the latest call() got past the admission check
    cb_calls,      \* history: call() invocations so far
    cb_invoked,    \* history: invocations of the wrapped function so far
    cb_consec,     \* history: counted failures since the last success or reset
    cb_probes,     \* history: invocations admitted since half-open was entered
    cb_ho_success  \* history: successes recorded since half-open was entered

cbvars == <<cb, cb_now, cb_in_flight, cb_last, cb_calls, cb_invoked,
            cb_consec, cb_probes, cb_ho_success>>

\* CircuitBreaker.__init__
CircuitBreaker(failure_threshold, recovery_timeout, half_open_max_calls) ==
    [failure_threshold |-> failure_threshold,
     recovery_timeout |-> recovery_timeout,
     half_open_max_calls |-> half_open_max_calls,
     state |-> "closed",
     failure_count |-> 0,
     success_count |-> 0,
     last_failure_time |-> None,
     last_success_time |-> None,
     half_open_calls |-> 0,
     total_calls |-> 0,
     total_failures |-> 0,
     total_successes |-> 0]

\* variant: the timeout has to be exceeded, not just reached
_should_attempt_reset_Strict(b, now) ==
    IF b.last_failure_time = None THEN FALSE
    ELSE now - b.last_failure_time[1] > b.recovery_timeout

_should_attempt_reset(b, now) ==
    IF b.last_failure_time = None THEN FALSE
    ELSE now - b.last_failure_time[1] >= b.recovery_timeout

_open_circuit(b) ==
    [b EXCEPT !.state = "open", !.success_count = 0, !.half_open_calls = 0]

_reset(b) ==
    [b EXCEPT !.state = "closed", !.failure_count = 0, !.success_count = 0,
              !.half_open_calls = 0]

_transition_to_half_open(b) ==
    [b EXCEPT !.state = "half_open", !.success_count = 0, !.half_open_calls = 0]

\* variant: one success more than half_open_max_calls is needed to close
_record_success_Late(b, now) ==
    LET b1 == [b EXCEPT !.total_calls = @ + 1, !.total_successes = @ + 1,
                        !.last_success_time = Some(now)]
    IN  IF b1.state = "half_open"
        THEN LET b2 == [b1 EXCEPT !.success_count = @ + 1]
             IN  IF b2.success_count > b2.half_open_max_calls
                 THEN _reset(b2) ELSE b2
        ELSE IF b1.state = "closed"
        THEN [b1 EXCEPT !.failure_count = 0]
        ELSE b1

_record_success(b, now) ==
    LET b1 == [b EXCEPT !.total_calls = @ + 1, !.total_successes = @ + 1,
                        !.last_success_time = Some(now)]
    IN  IF b1.state = "half_open"
        THEN LET b2 == [b1 EXCEPT !.success_count = @ + 1]
             IN  IF b2.success_count >= b2.half_open_max_calls
                 THEN _reset(b2) ELSE b2
        ELSE IF b1.state = "closed"
        THEN [b1 EXCEPT !.failure_count = 0]
        ELSE b1

\* variant: the breaker opens one failure after the threshold
_record_failure_Late(b, now) ==
    LET b1 == [b EXCEPT !.total_calls = @ + 1, !.total_failures = @ + 1,
                        !.failure_count = @ + 1,
                        !.last_failure_time = Some(now)]
    IN  IF b1.state = "closed"
        THEN IF b1.failure_count > b1.failure_threshold
             THEN _open_circuit(b1) ELSE b1
        ELSE IF b1.state = "half_open"
        THEN _open_circuit(b1)
        ELSE b1

_record_failure(b, now) ==
    LET b1 == [b EXCEPT !.total_calls = @ + 1, !.total_failures = @ + 1,
                        !.failure_count = @ + 1,
                        !.last_failure_time = Some(now)]
    IN  IF b1.state = "closed"
        THEN IF b1.failure_count >= b1.failure_threshold
             THEN _open_circuit(b1) ELSE b1
        ELSE IF b1.state = "half_open"
        THEN _open_circuit(b1)
        ELSE b1

\* the admission check of call(): <<breaker after the check, verdict>>
call_admission(b, now) ==
    IF b.state = "open"
    THEN IF _should_attempt_reset(b, now)
         THEN <<_transition_to_half_open(b), "admitted">>
         ELSE <<b, "blocked_open">>
    ELSE IF b.state = "half_open"
    THEN IF b.half_open_calls >= b.half_open_max_calls
         THEN <<b, "blocked_half_open">>
         ELSE <<[b EXCEPT !.half_open_calls = @ + 1], "admitted">>
    ELSE <<b, "admitted">>

InitBreaker ==
    /\ \E n \in 1..MaxThreshold, t \in 1..MaxRecovery, k \in 1..MaxHalfOpen :
         cb = CircuitBreaker(n, t, k)
    /\ cb_now = 0
    /\ cb_in_flight = 0
    /\ cb_last = "none"
    /\ cb_calls = 0
    /\ cb_invoked = 0
    /\ cb_consec = 0
    /\ cb_probes = 0
    /\ cb_ho_success = 0

IdleBreaker ==
    /\ cb = CircuitBreaker(1, 1, 1)
    /\ cb_now = 0
    /\ cb_in_flight = 0
    /\ cb_last = "none"
    /\ cb_calls = 0
    /\ cb_invoked = 0
    /\ cb_consec = 0
    /\ cb_probes = 0
    /\ cb_ho_success = 0

\* call() up to the await of the wrapped function, or up to the raise that
\* blocks the call
CallEnter ==
    /\ cb_calls < MaxBreakerCalls
    /\ LET adm == call_admission(cb, cb_now)
           entersHalfOpen == cb.state = "open" /\ adm[1].state = "half_open"
       IN  /\ adm[2] = "admitted" => cb_in_flight < MaxInFlight
           /\ cb' = adm[1]
           /\ cb_last' = adm[2]
           /\ cb_calls' = cb_calls + 1
           /\ cb_in_flight' = IF adm[2] = "admitted" THEN cb_in_flight + 1
                              ELSE cb_in_flight
           /\ cb_invoked' = IF adm[2] = "admitted" THEN cb_invoked + 1
                            ELSE cb_invoked
           /\ cb_probes' = IF adm[2] # "admitted" THEN cb_probes
                           ELSE IF entersHalfOpen THEN 1
                           ELSE IF cb.state = "half_open" THEN cb_probes + 1
                           ELSE cb_probes
           /\ cb_ho_success' = IF entersHalfOpen THEN 0 ELSE cb_ho_success
    /\ UNCHANGED <<cb_now, cb_consec>>

\* the wrapped function returns: _record_success
CallSucceeds ==
    /\ cb_in_flight > 0
    /\ cb' = _record_success(cb, cb_now)
    /\ cb_in_flight' = cb_in_flight - 1
    /\ cb_consec' = 0
    /\ cb_ho_success' = IF cb.state = "half_open" THEN cb_ho_success + 1
                        ELSE cb_ho_success
    /\ UNCHANGED <<cb_now, cb_last, cb_calls, cb_invoked, cb_probes>>

\* the wrapped function raises expected_exception: _record_failure
CallFails ==
    /\ cb_in_flight > 0
    /\ cb' = _record_failure(cb, cb_now)
    /\ cb_in_flight' = cb_in_flight - 1
    /\ cb_consec' = cb_consec + 1
    /\ UNCHANGED <<cb_now, cb_last, cb_calls, cb_invoked, cb_probes,
                   cb_ho_success>>

\* the wrapped function raises another Exception: only total_calls moves
CallRaisesUnexpected ==
    /\ cb_in_flight > 0
    /\ cb' = [cb EXCEPT !.total_calls = @ + 1]
    /\ cb_in_flight' = cb_in_flight - 1
    /\ UNCHANGED <<cb_now, cb_last, cb_calls, cb_invoked, cb_consec,
                   cb_probes, cb_ho_success>>

\* the wrapped function raises a BaseException that is no Exception
\* (asyncio.CancelledError when the awaiting task is cancelled,
\* KeyboardInterrupt, SystemExit): neither except clause of call() matches
\* and nothing is recorded
CallRaisesBaseException ==
    /\ cb_in_flight > 0
    /\ cb_in_flight' = cb_in_flight - 1
    /\ UNCHANGED <<cb, cb_now, cb_last, cb_calls, cb_invoked, cb_consec,
                   cb_probes, cb_ho_success>>

BreakerTick ==
    /\ cb_now < MaxBreakerTime
    /\ cb_now' = cb_now + 1
    /\ UNCHANGED <<cb, cb_in_flight, cb_last, cb_calls, cb_invoked,
                   cb_consec, cb_probes, cb_ho_success>>

NextBreaker ==
    \/ CallEnter
    \/ CallSucceeds
    \/ CallFails
    \/ CallRaisesUnexpected
    \/ BreakerTick

(***************************************************************************)
(* PART 3.  Rate limiter (llm_gateway/services/rate_limiter.py).           *)
(*                                                                         *)
(* time.time() is a count of ticks, TicksPerSecond ticks to the second,    *)
(* and does not run backwards.  Token counts are kept in units of          *)
(* 1/TicksPerSecond token, so that elapsed * refill_rate is exact for the  *)
(* whole-number refill rates the limiter configures: a bucket field        *)
(* tokens = k stands for k / TicksPerSecond tokens.                        *)
(***************************************************************************)
TicksPerSecond == 2

\* largest capacity, refill_rate and consume(n) argument drawn for a bucket
MaxCapacity == 2
MaxRate == 2
MaxConsume == 2
\* last clock value of the bucket and of the window specification
MaxBucketTime == 4
MaxWindowTime == 6
\* SlidingWindow.is_allowed() calls explored
MaxWindowCalls == 6
\* largest window_size (seconds) and max_requests drawn for a window
MaxWindowSize == 2
MaxWindowRequests == 2

VARIABLES
    now,        \* time.time(), in ticks
    tb,         \* a TokenBucket
    tb_result,  \* what the latest consume() returned
    tb_mark,    \* history: <<tokens, time>> observed at an instant t1 with
                \* no successful consume since, or None
    tb_since,   \* history: operations on the bucket since tb_mark was taken
    tb_asked,   \* history: the argument of consume() if the latest step on the
                \* bucket was a consume, else 0
    sw,         \* a SlidingWindow
    sw_result,  \* what the latest SlidingWindow.is_allowed() returned
    sw_calls,   \* history: SlidingWindow.is_allowed() calls so far
    sw_admitted \* history: the instants of all admissions, in order

tbvars == <<tb, tb_result, tb_mark, tb_since, tb_asked>>

swvars == <<sw, sw_result, sw_calls, sw_admitted>>

\* a whole number of tokens in bucket units
Tokens(n) == n * TicksPerSecond

\* TokenBucket.__init__
TokenBucket(capacity, refill_rate, t) ==
    [capacity |-> capacity, refill_rate |-> refill_rate,
     tokens |-> Tokens(capacity), last_refill |-> t]

\* variant: the refill is not clamped to capacity
_refill_Unclamped(bucket, t) ==
    [bucket EXCEPT !.tokens = bucket.tokens + (t - bucket.last_refill) * bucket.refill_rate,
                   !.last_refill = t]

_refill(bucket, t) ==
    LET elapsed == t - bucket.last_refill
        tokens_to_add == elapsed * bucket.refill_rate
    IN  [bucket EXCEPT !.tokens = Min(Tokens(bucket.capacity), bucket.tokens + tokens_to_add),
                       !.last_refill = t]

\* variant: the last token cannot be taken
consume_Strict(bucket, tokens, t) ==
    LET b == _refill(bucket, t)
    IN  IF b.tokens > Tokens(tokens)
        THEN <<[b EXCEPT !.tokens = @ - Tokens(tokens)], TRUE>>
        ELSE <<b, FALSE>>

\* variant: a consume that is refused takes what is there
consume_Draining(bucket, tokens, t) ==
    LET b == _refill(bucket, t)
    IN  IF b.tokens >= Tokens(tokens)
        THEN <<[b EXCEPT !.tokens = @ - Tokens(tokens)], TRUE>>
        ELSE <<[b EXCEPT !.tokens = 0], FALSE>>

\* consume(tokens): <<bucket afterwards, returned value>>
consume(bucket, tokens, t) ==
    LET b == _refill(bucket, t)
    IN  IF b.tokens >= Tokens(tokens)
        THEN <<[b EXCEPT !.tokens = @ - Tokens(tokens)], TRUE>>
        ELSE <<b, FALSE>>

\* SlidingWindow.__init__
SlidingWindow(window_size, max_requests) ==
    [window_size |-> window_size, max_requests |-> max_requests,
     requests |-> <<>>]

\* while self.requests and self.requests[0] <= cutoff: popleft()
PopOld(requests, cutoff) ==
    LET stops == {i \in 1..Len(requests) : requests[i] > cutoff}
        first == IF stops = {} THEN Len(requests) + 1
                 ELSE CHOOSE i \in stops : \A j \in stops : i <= j
    IN  SubSeq(requests, first, Len(requests))

\* variant: the limit test admits one request too many
window_is_allowed_OffByOne(w, t) ==
    LET cutoff == t - w.window_size * TicksPerSecond
        kept == PopOld(w.requests, cutoff)
    IN  IF Len(kept) <= w.max_requests
        THEN <<[w EXCEPT !.requests = Append(kept, t)], TRUE>>
        ELSE <<[w EXCEPT !.requests = kept], FALSE>>

\* SlidingWindow.is_allowed(): <<window afterwards, returned value>>
window_is_allowed(w, t) ==
    LET cutoff == t - w.window_size * TicksPerSecond
        kept == PopOld(w.requests, cutoff)
    IN  IF Len(kept) < w.max_requests
        THEN <<[w EXCEPT !.requests = Append(kept, t)], TRUE>>
        ELSE <<[w EXCEPT !.requests = kept], FALSE>>

InitBucket ==
    /\ \E c \in 1..MaxCapacity, r \in 1..MaxRate : tb = TokenBucket(c, r, 0)
    /\ tb_result = FALSE
    /\ tb_mark = None
    /\ tb_since = 0
    /\ tb_asked = 0

IdleBucket ==
    /\ tb = TokenBucket(1, 1, 0)
    /\ tb_result = FALSE
    /\ tb_mark = None
    /\ tb_since = 0
    /\ tb_asked = 0

InitWindow ==
    /\ \E w \in 1..MaxWindowSize, m \in 1..MaxWindowRequests :
         sw = SlidingWindow(w, m)
    /\ sw_result = FALSE
    /\ sw_calls = 0
    /\ sw_admitted = <<>>

IdleWindow ==
    /\ sw = SlidingWindow(1, 1)
    /\ sw_result = FALSE
    /\ sw_calls = 0
    /\ sw_admitted = <<>>

\* bucket.consume(n)
BucketConsume ==
    \E n \in 1..MaxConsume :
        LET r == consume(tb, n, now)
        IN  /\ tb' = r[1]
            /\ tb_result' = r[2]
            /\ tb_mark' = IF r[2] THEN None ELSE tb_mark
            /\ tb_since' = IF r[2] \/ tb_mark = None THEN 0 ELSE Min(tb_since + 1, 2)
            /\ tb_asked' = n
            /\ UNCHANGED now

\* get_rate_limit_status: bucket._refill() and a read of bucket.tokens
BucketStatus ==
    /\ tb' = _refill(tb, now)
    /\ tb_since' = IF tb_mark = None THEN 0 ELSE Min(tb_since + 1, 2)
    /\ tb_asked' = 0
    /\ UNCHANGED <<now, tb_result, tb_mark>>

\* the instant t1 of the refill law: what a status read observes now
BucketMark ==
    /\ tb_mark' = <<_refill(tb, now).tokens, now>>
    /\ tb_since' = 0
    /\ tb_asked' = 0
    /\ UNCHANGED <<now, tb, tb_result>>

BucketTick ==
    /\ now < MaxBucketTime
    /\ now' = now + 1
    /\ UNCHANGED tbvars

NextBucket ==
    \/ BucketConsume
    \/ BucketStatus
    \/ BucketMark
    \/ BucketTick

\* window.is_allowed()
WindowIsAllowed ==
    LET r == window_is_allowed(sw, now)
    IN  /\ sw_calls < MaxWindowCalls
        /\ sw_calls' = sw_calls + 1
        /\ sw' = r[1]
        /\ sw_result' = r[2]
        /\ sw_admitted' = IF r[2] THEN Append(sw_admitted, now) ELSE sw_admitted
        /\ UNCHANGED now

WindowTick ==
    /\ now < MaxWindowTime
    /\ now' = now + 1
    /\ UNCHANGED swvars

NextWindow ==
    \/ WindowIsAllowed
    \/ WindowTick

(***************************************************************************)
(* RateLimiter: two global windows, two windows per provider and one       *)
(* token bucket per user.                                                  *)
(***************************************************************************)
\* is_allowed calls and clock steps explored after the scripted traffic
MaxLimiterCalls == 3
MaxLimiterWaits == 2

VARIABLES
    rl,         \* the RateLimiter object: global_windows, provider_windows, user_buckets
    rl_result,  \* what the latest RateLimiter.is_allowed() returned
    rl_last,    \* the arguments of the latest RateLimiter.is_allowed()
    rl_calls,   \* history: is_allowed() calls so far
    rl_free,    \* history: <<calls, clock steps>> made after the script
    rl_script   \* traffic still to be replayed before the free exploration

rlvars == <<rl, rl_result, rl_last, rl_calls, rl_free, rl_script>>

Users == {"u1", "u2"}

Providers == {"p1"}

\* provider: Optional[str] = None
NoProvider == ""

\* the tier each user's requests are made with
TierOf == [u1 |-> "default", u2 |-> "premium"]

\* the order in which the dicts of windows are iterated
LimitNames == <<"requests_per_minute", "requests_per_second">>

\* RateLimiter.__init__: self.global_windows
GlobalWindows ==
    [requests_per_minute |-> SlidingWindow(60, 1000),
     requests_per_second |-> SlidingWindow(1, 50)]

\* RateLimiter.__init__: the default factory of self.provider_windows
DefaultProviderWindows ==
    [requests_per_minute |-> SlidingWindow(60, 200),
     requests_per_second |-> SlidingWindow(1, 10)]

\* RateLimiter.__init__: self.user_config
user_config ==
    [default |-> [capacity |-> 100, refill_rate |-> 1],
     premium |-> [capacity |-> 500, refill_rate |-> 5],
     enterprise |-> [capacity |-> 1000, refill_rate |-> 10]]

\* RateLimiter.__init__
RateLimiter ==
    [global_windows |-> GlobalWindows,
     provider_windows |-> [p \in {} |-> DefaultProviderWindows],
     user_buckets |-> [u \in {} |-> TokenBucket(1, 1, 0)]]

\* d[key] = value on a dict
Put(d, key, value) ==
    [k \in DOMAIN d \cup {key} |-> IF k = key THEN value ELSE d[k]]

\* for limit_name, window in windows.items(): if not window.is_allowed(): return False
\* <<windows afterwards, TRUE iff every window admitted>>
RECURSIVE check_windows(_, _, _)
check_windows(windows, t, i) ==
    IF i > Len(LimitNames) THEN <<windows, TRUE>>
    ELSE LET r == window_is_allowed(windows[LimitNames[i]], t)
             after == [windows EXCEPT ![LimitNames[i]] = r[1]]
         IN  IF r[2] THEN check_windows(after, t, i + 1) ELSE <<after, FALSE>>

\* self.provider_windows[provider] on the defaultdict
provider_limits(limiter, provider) ==
    IF provider \in DOMAIN limiter.provider_windows
    THEN limiter.provider_windows[provider]
    ELSE DefaultProviderWindows

_get_user_bucket(limiter, user_id, user_tier, t) ==
    IF user_id \in DOMAIN limiter.user_buckets
    THEN limiter.user_buckets[user_id]
    ELSE LET cfg == IF user_tier \in DOMAIN user_config
                    THEN user_config[user_tier] ELSE user_config["default"]
         IN  TokenBucket(cfg.capacity, cfg.refill_rate, t)

\* variant: the verdict of the per-provider windows is ignored
is_allowed_IgnoresProvider(limiter, user_id, provider, user_tier, t) ==
    LET g == check_windows(limiter.global_windows, t, 1)
        l1 == [limiter EXCEPT !.global_windows = g[1]]
    IN  IF ~g[2] THEN <<l1, FALSE>>
        ELSE
        LET p == IF provider # NoProvider
                 THEN check_windows(provider_limits(l1, provider), t, 1)
                 ELSE <<DefaultProviderWindows, TRUE>>
            l2 == IF provider # NoProvider
                  THEN [l1 EXCEPT !.provider_windows = Put(@, provider, p[1])]
                  ELSE l1
            c == consume(_get_user_bucket(l2, user_id, user_tier, t), 1, t)
        IN  <<[l2 EXCEPT !.user_buckets = Put(@, user_id, c[1])], c[2]>>

\* RateLimiter.is_allowed: <<limiter afterwards, returned value>>
is_allowed(limiter, user_id, provider, user_tier, t) ==
    LET g == check_windows(limiter.global_windows, t, 1)
        l1 == [limiter EXCEPT !.global_windows = g[1]]
    IN  IF ~g[2] THEN <<l1, FALSE>>
        ELSE
        LET p == IF provider # NoProvider
                 THEN check_windows(provider_limits(l1, provider), t, 1)
                 ELSE <<DefaultProviderWindows, TRUE>>
            l2 == IF provider # NoProvider
                  THEN [l1 EXCEPT !.provider_windows = Put(@, provider, p[1])]
                  ELSE l1
        IN  IF ~p[2] THEN <<l2, FALSE>>
            ELSE LET c == consume(_get_user_bucket(l2, user_id, user_tier, t), 1, t)
                 IN  <<[l2 EXCEPT !.user_buckets = Put(@, user_id, c[1])], c[2]>>

\* Scripted traffic: n calls of user u1 in one instant, or a pause.
Burst(n, provider) == [op |-> "call", n |-> n, provider |-> provider]

Wait(ticks) == [op |-> "wait", n |-> ticks, provider |-> NoProvider]

OneSecond == TicksPerSecond

\* Each script leaves one layer of the limiter one request short of its
\* limit (or, for the bucket, two tokens short of empty).
LimiterScripts ==
    LET gs == GlobalWindows.requests_per_second.max_requests
        gm == GlobalWindows.requests_per_minute.max_requests
        ps == DefaultProviderWindows.requests_per_second.max_requests
        pm == DefaultProviderWindows.requests_per_minute.max_requests
        cap == user_config["default"].capacity
    IN  { <<>>,
          <<Burst(gs - 1, NoProvider)>>,
          <<Burst(gm - 1, NoProvider), Wait(OneSecond)>>,
          <<Burst(ps - 1, "p1")>>,
          <<Burst(gs, "p1"), Wait(OneSecond), Burst(gs, "p1"), Wait(OneSecond),
            Burst(gs, "p1"), Wait(OneSecond), Burst(pm - 3 * gs - 1, "p1"),
            Wait(OneSecond)>>,
          <<Burst(gs, NoProvider), Wait(OneSecond), Burst(cap - gs, NoProvider),
            Wait(OneSecond)>> }

\* the clock steps of the free exploration: one tick, or one window length
WaitSteps ==
    {1} \cup {GlobalWindows[LimitNames[i]].window_size * TicksPerSecond :
                 i \in 1..Len(LimitNames)}

InitLimiter ==
    /\ rl = RateLimiter
    /\ rl_result = FALSE
    /\ rl_last = [user_id |-> "u1", provider |-> NoProvider, user_tier |-> "default"]
    /\ rl_calls = 0
    /\ rl_free = <<0, 0>>
    /\ rl_script \in LimiterScripts

IdleLimiter ==
    /\ rl = RateLimiter
    /\ rl_result = FALSE
    /\ rl_last = [user_id |-> "u1", provider |-> NoProvider, user_tier |-> "default"]
    /\ rl_calls = 0
    /\ rl_free = <<0, 0>>
    /\ rl_script = <<>>

\* the script after its first step has been carried out once
ScriptRest(script) ==
    IF script[1].n > 1 /\ script[1].op = "call"
    THEN <<[script[1] EXCEPT !.n = @ - 1]>> \o Tail(script)
    ELSE Tail(script)

\* await limiter.is_allowed(user_id, provider, user_tier)
LimiterIsAllowed ==
    \E user_id \in Users, provider \in Providers \cup {NoProvider} :
        /\ IF rl_script # <<>>
           THEN /\ rl_script[1].op = "call"
                /\ rl_script[1].n > 0
                /\ user_id = "u1"
                /\ provider = rl_script[1].provider
                /\ rl_script' = ScriptRest(rl_script)
                /\ rl_free' = rl_free
           ELSE /\ rl_free[1] < MaxLimiterCalls
                /\ rl_free' = <<rl_free[1] + 1, rl_free[2]>>
                /\ rl_script' = rl_script
        /\ LET r == is_allowed(rl, user_id, provider, TierOf[user_id], now)
           IN  /\ rl' = r[1]
               /\ rl_result' = r[2]
        /\ rl_last' = [user_id |-> user_id, provider |-> provider,
                       user_tier |-> TierOf[user_id]]
        /\ rl_calls' = rl_calls + 1
        /\ UNCHANGED now

LimiterWait ==
    \E d \in WaitSteps :
        /\ IF rl_script # <<>>
           THEN /\ rl_script[1].op = "wait"
                /\ d = rl_script[1].n
                /\ rl_script' = Tail(rl_script)
                /\ rl_free' = rl_free
           ELSE /\ rl_free[2] < MaxLimiterWaits
                /\ rl_free' = <<rl_free[1], rl_free[2] + 1>>
                /\ rl_script' = rl_script
        /\ now' = now + d
        /\ UNCHANGED <<rl, rl_result, rl_last, rl_calls>>

NextLimiter ==
    \/ LimiterIsAllowed
    \/ LimiterWait

(***************************************************************************)
(* The burst scenario: a fresh default-tier user sends capacity + 1 calls  *)
(* within one second, pauses for two seconds and sends further calls,      *)
(* either through RateLimiter.is_allowed or straight to a TokenBucket of   *)
(* the default tier.                                                       *)
(***************************************************************************)
\* calls sent after the pause
MaxFurtherCalls == 3

VARIABLES
    s4_mode,   \* "limiter": RateLimiter.is_allowed; "bucket": TokenBucket.consume
    s4_phase,  \* "burst" or "after" the pause
    s4_log     \* what each call returned, in order

s4vars == <<s4_mode, s4_phase, s4_log>>

DefaultTier == user_config["default"]

BurstCalls == DefaultTier.capacity + 1

InitScenario ==
    /\ s4_mode \in {"limiter", "bucket"}
    /\ s4_phase = "burst"
    /\ s4_log = <<>>

IdleScenario ==
    /\ s4_mode = "limiter"
    /\ s4_phase = "burst"
    /\ s4_log = <<>>

ScenarioCallDue ==
    \/ s4_phase = "burst" /\ Len(s4_log) < BurstCalls
    \/ s4_phase = "after" /\ Len(s4_log) < BurstCalls + MaxFurtherCalls

\* await limiter.is_allowed(user_id) as the gateway's check_rate_limit does
ScenarioLimiterCall ==
    /\ s4_mode = "limiter"
    /\ ScenarioCallDue
    /\ LET r == is_allowed(rl, "u1", NoProvider, "default", now)
       IN  /\ rl' = r[1]
           /\ rl_result' = r[2]
           /\ s4_log' = Append(s4_log, r[2])
    /\ UNCHANGED <<now, tb, tb_result, s4_mode, s4_phase>>

\* bucket.consume()
ScenarioBucketCall ==
    /\ s4_mode = "bucket"
    /\ ScenarioCallDue
    /\ LET r == consume(tb, 1, now)
       IN  /\ tb' = r[1]
           /\ tb_result' = r[2]
           /\ s4_log' = Append(s4_log, r[2])
    /\ UNCHANGED <<now, rl, rl_result, s4_mode, s4_phase>>

\* time passes during the burst, which stays within one second
ScenarioTick ==
    /\ s4_phase = "burst"
    /\ now + 1 < OneSecond
    /\ now' = now + 1
    /\ UNCHANGED <<rl, rl_result, tb, tb_result, s4vars>>

\* two seconds without calls
ScenarioPause ==
    /\ s4_phase = "burst"
    /\ Len(s4_log) = BurstCalls
    /\ now' = now + 2 * OneSecond
    /\ s4_phase' = "after"
    /\ UNCHANGED <<rl, rl_result, tb, tb_result, s4_mode, s4_log>>

NextScenario ==
    \/ ScenarioLimiterCall
    \/ ScenarioBucketCall
    \/ ScenarioTick
    \/ ScenarioPause

(***************************************************************************)
(* PART 4.  Search fan-out (search-gateway/main.py, search-agent/main.py): *)
(* the results gathered from the providers, flattened in provider order,   *)
(* are deduplicated by URL.                                                *)
(***************************************************************************)
\* results gathered from all providers of one search
MaxGathered == 3

VARIABLES
    dd_all,       \* all_results: the gathered lists, flattened
    dd_fused,     \* the value of _fuse_and_deduplicate(all_results)
    dd_pc         \* position in SearchGateway.search

ddvars == <<dd_all, dd_fused, dd_pc>>

ResultUrls == {"", "ua", "ub"}

\* SearchResult: url, title and the provider tag (description goes with title)
SearchResult == [url : ResultUrls, title : {"t1", "t2"}, source : {"s1", "s2"}]

RECURSIVE SeqsUpTo(_, _)
\* the sequences over S of length at most n
SeqsUpTo(S, n) ==
    IF n = 0 THEN {<<>>}
    ELSE LET shorter == SeqsUpTo(S, n - 1)
         IN  shorter \cup {Append(s, x) : s \in {t \in shorter : Len(t) = n - 1}, x \in S}

\* d[key] = value on an insertion-ordered dict, kept as a sequence of
\* <<key, value>> pairs: a key already present keeps its position and takes
\* the new value, a new key goes to the end
DictSet(d, key, value) ==
    IF \E i \in 1..Len(d) : d[i][1] = key
    THEN [i \in 1..Len(d) |-> IF d[i][1] = key THEN <<key, value>> ELSE d[i]]
    ELSE Append(d, <<key, value>>)

RECURSIVE DictOfUrls(_, _, _)
\* {result.url: result for result in all_results if result.url}
DictOfUrls(all_results, i, d) ==
    IF i > Len(all_results) THEN d
    ELSE DictOfUrls(all_results, i + 1,
                    IF all_results[i].url # ""
                    THEN DictSet(d, all_results[i].url, all_results[i])
                    ELSE d)

\* list({...}.values())
_fuse_and_deduplicate(all_results) ==
    LET d == DictOfUrls(all_results, 1, <<>>)
    IN  [i \in 1..Len(d) |-> d[i][2]]

InitFanout ==
    /\ dd_all \in SeqsUpTo(SearchResult, MaxGathered)
    /\ dd_fused = <<>>
    /\ dd_pc = "gathered"

IdleFanout ==
    /\ dd_all = <<>>
    /\ dd_fused = <<>>
    /\ dd_pc = "gathered"

\* search(): fused_results = self._fuse_and_deduplicate(all_results)
FanoutFuse ==
    /\ dd_pc = "gathered"
    /\ dd_fused' = _fuse_and_deduplicate(dd_all)
    /\ dd_pc' = "fused"
    /\ UNCHANGED dd_all

NextFanout == FanoutFuse

(***************************************************************************)
(* PART 5.  ProviderManager.execute_completion                             *)
(* (llm_gateway/services/provider_manager.py).                             *)
(*                                                                         *)
(* A request is a stack of execute_completion frames: the frame of the     *)
(* selected provider and, during a fallback, the frame of the fallback     *)
(* provider called from the handler of the first.  The suspension points   *)
(* are the provider call (awaited inside CircuitBreaker.call) and each     *)
(* provider.is_available() of get_available_providers.  The breakers are   *)
(* the CircuitBreaker objects of part 2.                                   *)
(***************************************************************************)
\* consecutive failures one of the providers has had before the requests start
MaxPriorFailures == 5
\* times the clock advances by one recovery timeout
MaxPMTicks == 1

VARIABLES
    pm_stats,      \* provider_stats: error_streak and active_requests per provider
    pm_breakers,   \* circuit_breakers: one CircuitBreaker per provider
    pm_req,        \* the requests: position, frames and what they did so far
    pm_now         \* time.time(), in seconds

pmvars == <<pm_stats, pm_breakers, pm_req, pm_now>>

\* the requests served concurrently
PMRequests == {"r1", "r2"}

\* self.providers, in registration order
ProviderOrder == <<"pa", "pb", "pc">>

PMProviders == {ProviderOrder[i] : i \in 1..Len(ProviderOrder)}

\* register_provider: CircuitBreaker(failure_threshold=5, recovery_timeout=60)
\* with the default half_open_max_calls
ProviderBreaker == CircuitBreaker(5, 60, 3)

\* the threshold of the fallback test on error_streak
StreakLimit == 3

RECURSIVE Unwind(_, _, _)
\* the finally blocks of the frames from the top one down to frame 1
Unwind(stats, frames, i) ==
    IF i = 0 THEN stats
    ELSE Unwind([stats EXCEPT ![frames[i].provider].active_requests = @ - 1],
                frames, i - 1)

\* a request that has not been started
NoRequest ==
    [pc |-> "idle", frames |-> <<>>, scan |-> 0, available |-> <<>>,
     fallback |-> FALSE,
     tried |-> <<>>, failed |-> <<>>, tested |-> <<>>, found |-> <<>>,
     result_of |-> "", error_of |-> ""]

\* variant: the fallback test admits a streak equal to the limit
fallback_wanted_Lenient(fallback, error_streak) ==
    fallback /\ error_streak <= StreakLimit

\* if fallback and stats['error_streak'] < 3
fallback_wanted(fallback, error_streak) ==
    fallback /\ error_streak < StreakLimit

\* the except block of the top frame: the streak is counted, then either the
\* fallback search starts or the error is raised through every frame
except_handler(w, q) ==
    LET top == q.frames[Len(q.frames)]
        p == top.provider
        stats == [w.stats EXCEPT ![p].error_streak = @ + 1]
        q1 == [q EXCEPT !.failed = Append(@, p),
                        !.tested = IF top.fallback
                                   THEN Append(@, stats[p].error_streak) ELSE @]
    IN  IF fallback_wanted(top.fallback, stats[p].error_streak)
        THEN [stats |-> stats, breakers |-> w.breakers,
              req |-> [q1 EXCEPT !.pc = "selecting", !.scan = 1,
                                 !.available = <<>>]]
        ELSE [stats |-> Unwind(stats, q.frames, Len(q.frames)),
              breakers |-> w.breakers,
              req |-> [q1 EXCEPT !.pc = "raised", !.frames = <<>>,
                                 !.error_of = p]]

\* execute_completion from its first statement to its first suspension
execute_completion(w, q, provider_name, fallback) ==
    LET stats == [w.stats EXCEPT ![provider_name].active_requests = @ + 1]
        q1 == [q EXCEPT !.frames = Append(@, [provider |-> provider_name,
                                              fallback |-> fallback]),
                        !.tried = Append(@, provider_name)]
        b == w.breakers[provider_name]
        adm == call_admission(b, pm_now)
    IN  IF b.state = "open"
        THEN except_handler([stats |-> stats, breakers |-> w.breakers], q1)
        ELSE IF adm[2] = "admitted"
        THEN [stats |-> stats,
              breakers |-> [w.breakers EXCEPT ![provider_name] = adm[1]],
              req |-> [q1 EXCEPT !.pc = "awaiting"]]
        ELSE except_handler([stats |-> stats, breakers |-> w.breakers], q1)

RECURSIVE PriorFailures(_, _, _)
\* the manager after k more failed requests (fallback off) to provider p
PriorFailures(w, p, k) ==
    IF k = 0 THEN w
    ELSE LET stats == [w.stats EXCEPT ![p].error_streak = @ + 1]
             b == w.breakers[p]
         IN  PriorFailures(
                 [stats |-> stats,
                  breakers |-> IF b.state = "open" THEN w.breakers
                               ELSE [w.breakers EXCEPT ![p] = _record_failure(b, 0)]],
                 p, k - 1)

\* ProviderManager.__init__ and register_provider
ProviderManager ==
    [stats |-> [p \in PMProviders |-> [error_streak |-> 0, active_requests |-> 0]],
     breakers |-> [p \in PMProviders |-> ProviderBreaker]]

InitManager ==
    /\ \E p \in PMProviders, k \in 0..MaxPriorFailures :
         LET w == PriorFailures(ProviderManager, p, k)
         IN  /\ pm_stats = w.stats
             /\ pm_breakers = w.breakers
    /\ pm_req = [r \in PMRequests |-> NoRequest]
    /\ pm_now = 0

IdleManager ==
    /\ pm_stats = ProviderManager.stats
    /\ pm_breakers = ProviderManager.breakers
    /\ pm_req = [r \in PMRequests |-> NoRequest]
    /\ pm_now = 0

World == [stats |-> pm_stats, breakers |-> pm_breakers]

\* the manager and request r after a step of r
Becomes(r, out) ==
    /\ pm_stats' = out.stats
    /\ pm_breakers' = out.breakers
    /\ pm_req' = [pm_req EXCEPT ![r] = out.req]

\* get_completion: the gateway calls execute_completion on the selected
\* provider with the request's fallback flag
PMStart(r) ==
    /\ pm_req[r].pc = "idle"
    /\ \E p \in PMProviders, fallback \in BOOLEAN :
         Becomes(r, execute_completion(World,
                                       [pm_req[r] EXCEPT !.fallback = fallback],
                                       p, fallback))
    /\ UNCHANGED pm_now

\* the provider call returns: the breaker records the success, the streak
\* is reset and the response is returned through every frame
PMReturns(r) ==
    LET q == pm_req[r]
        p == q.frames[Len(q.frames)].provider
        stats == [pm_stats EXCEPT ![p].error_streak = 0]
    IN  /\ q.pc = "awaiting"
        /\ pm_breakers' = [pm_breakers EXCEPT ![p] = _record_success(@, pm_now)]
        /\ pm_stats' = Unwind(stats, q.frames, Len(q.frames))
        /\ pm_req' = [pm_req EXCEPT ![r] = [q EXCEPT !.pc = "returned",
                                                     !.frames = <<>>,
                                                     !.result_of = p]]
        /\ UNCHANGED pm_now

\* the provider call raises: the breaker records the failure and the except
\* block of the frame runs
PMRaises(r) ==
    LET q == pm_req[r]
        p == q.frames[Len(q.frames)].provider
        w == [stats |-> pm_stats,
              breakers |-> [pm_breakers EXCEPT ![p] = _record_failure(@, pm_now)]]
    IN  /\ q.pc = "awaiting"
        /\ Becomes(r, except_handler(w, q))
        /\ UNCHANGED pm_now

\* [p for p in available if p != provider_name]
fallback_providers(available, provider_name) ==
    SelectSeq(available, LAMBDA p : p # provider_name)

\* get_available_providers, one provider per step: is_available() is
\* awaited and the breaker is read when it returns.  After the last
\* provider the handler calls the first candidate with fallback=False or
\* raises the error it caught.
PMCheckAvailable(r) ==
    LET q == pm_req[r]
        name == ProviderOrder[q.scan]
        failed == q.frames[Len(q.frames)].provider
    IN  /\ q.pc = "selecting"
        /\ \E is_available \in BOOLEAN :
             LET available == IF is_available /\ pm_breakers[name].state # "open"
                              THEN Append(q.available, name)
                              ELSE q.available
                 candidates == fallback_providers(available, failed)
                 q1 == [q EXCEPT !.available = available]
                 q2 == [q1 EXCEPT !.found = Append(@, available)]
             IN  IF q.scan < Len(ProviderOrder)
                 THEN /\ pm_req' = [pm_req EXCEPT ![r] = [q1 EXCEPT !.scan = @ + 1]]
                      /\ UNCHANGED <<pm_stats, pm_breakers>>
                 ELSE IF candidates # <<>>
                 THEN Becomes(r, execute_completion(World, q2, candidates[1], FALSE))
                 ELSE Becomes(r, [stats |-> Unwind(pm_stats, q.frames, Len(q.frames)),
                                  breakers |-> pm_breakers,
                                  req |-> [q2 EXCEPT !.pc = "raised",
                                                     !.frames = <<>>,
                                                     !.error_of = failed]])
        /\ UNCHANGED pm_now

\* variant: the counters are given back by the return and raise paths only
cancel_unwind_Leaks(stats, frames) == stats

\* CancelledError raised at the suspension point: it is no Exception, so no
\* handler runs, and the finally block of every frame does
cancel_unwind(stats, frames) == Unwind(stats, frames, Len(frames))

\* the task of request r is cancelled while it is suspended
PMCancel(r) ==
    LET q == pm_req[r]
    IN  /\ q.pc \in {"awaiting", "selecting"}
        /\ pm_stats' = cancel_unwind(pm_stats, q.frames)
        /\ pm_req' = [pm_req EXCEPT ![r] = [q EXCEPT !.pc = "cancelled",
                                                     !.frames = <<>>]]
        /\ UNCHANGED <<pm_breakers, pm_now>>

\* a recovery timeout passes
PMTick ==
    /\ pm_now < MaxPMTicks * ProviderBreaker.recovery_timeout
    /\ pm_now' = pm_now + ProviderBreaker.recovery_timeout
    /\ UNCHANGED <<pm_stats, pm_breakers, pm_req>>

NextManager ==
    \/ \E r \in PMRequests :
         \/ PMStart(r)
         \/ PMReturns(r)
         \/ PMRaises(r)
         \/ PMCheckAvailable(r)
         \/ PMCancel(r)
    \/ PMTick

(***************************************************************************)
(* PART 6.  Streaming completions of the LLM gateway                       *)
(* (enhanced_api_gateway.py: get_completion with stream=True and           *)
(* _stream_completion).  The generator is resumed once per line written.   *)
(***************************************************************************)
\* chunks a provider streams for one completion
MaxStreamChunks == 3

VARIABLES
    gs_pc,        \* position of get_completion / _stream_completion
    gs_provider,  \* selected_provider
    gs_invoked,   \* providers whose get_streaming_completion was called
    gs_lines,     \* the SSE lines written downstream
    gs_metrics    \* MetricsService.record_request calls: <<provider, success>>

gsvars == <<gs_pc, gs_provider, gs_invoked, gs_lines, gs_metrics>>

\* the three kinds of line _stream_completion writes
ContentLine(chunk, provider) ==
    [kind |-> "content", content |-> chunk, provider |-> provider]

DoneLine == [kind |-> "done", content |-> "", provider |-> ""]

ErrorLine(provider) == [kind |-> "error", content |-> "", provider |-> provider]

InitStream ==
    /\ gs_pc = "request"
    /\ gs_provider = ""
    /\ gs_invoked = <<>>
    /\ gs_lines = <<>>
    /\ gs_metrics = <<>>

IdleStream == InitStream

\* get_completion: select_provider, then either 503 or the streaming
\* response, whose generator calls provider.get_streaming_completion
StreamStart ==
    /\ gs_pc = "request"
    /\ \/ /\ gs_pc' = "no_provider"
          /\ UNCHANGED <<gs_provider, gs_invoked>>
       \/ \E p \in PMProviders :
            /\ gs_provider' = p
            /\ gs_invoked' = Append(gs_invoked, p)
            /\ gs_pc' = "streaming"
    /\ UNCHANGED <<gs_lines, gs_metrics>>

\* the provider yields a chunk, which is written as a content line
StreamChunk_Line ==
    /\ gs_pc = "streaming"
    /\ Cardinality({i \in 1..Len(gs_lines) : gs_lines[i].kind = "content"})
         < MaxStreamChunks
    /\ \E chunk \in FragValues :
         gs_lines' = Append(gs_lines, ContentLine(chunk, gs_provider))
    /\ UNCHANGED <<gs_pc, gs_provider, gs_invoked, gs_metrics>>

\* the provider's stream ends: the completion marker is written and the
\* success is recorded
StreamDone ==
    /\ gs_pc = "streaming"
    /\ gs_lines' = Append(gs_lines, DoneLine)
    /\ gs_metrics' = Append(gs_metrics, <<gs_provider, TRUE>>)
    /\ gs_pc' = "finished"
    /\ UNCHANGED <<gs_provider, gs_invoked>>

\* variant: a failed stream is started again on another provider
stream_failure_Retries(provider, invoked, lines) ==
    LET other == CHOOSE p \in PMProviders : p # provider
    IN  IF Len(invoked) < 2
        THEN [pc |-> "streaming", provider |-> other,
              invoked |-> Append(invoked, other), lines |-> lines]
        ELSE [pc |-> "failed", provider |-> provider, invoked |-> invoked,
              lines |-> Append(lines, ErrorLine(provider))]

\* the except block of _stream_completion: the error marker is written
stream_failure(provider, invoked, lines) ==
    [pc |-> "failed", provider |-> provider, invoked |-> invoked,
     lines |-> Append(lines, ErrorLine(provider))]

\* the provider raises, before its first chunk or between two chunks
StreamFails ==
    /\ gs_pc = "streaming"
    /\ LET out == stream_failure(gs_provider, gs_invoked, gs_lines)
       IN  /\ gs_pc' = out.pc
           /\ gs_provider' = out.provider
           /\ gs_invoked' = out.invoked
           /\ gs_lines' = out.lines
    /\ gs_metrics' = Append(gs_metrics, <<gs_provider, FALSE>>)

NextStream ==
    \/ StreamStart
    \/ StreamChunk_Line
    \/ StreamDone
    \/ StreamFails

(***************************************************************************)
(* PART 7.  The scrape stage's dispatch (deepsearch/core/engine.py,        *)
(* _parallel_scrape): one scrape_one task per selected result, each        *)
(* holding the semaphore while its POST /crawl is awaited.                 *)
(***************************************************************************)
\* search results handed to the scrape stage
MaxScrapeResults == 4
\* largest scraping_config concurrency drawn
MaxConcurrency == 2

VARIABLES
    ps_n,            \* len(search_results)
    ps_max_urls,     \* max_urls
    ps_concurrency,  \* config.scraping_config.get("concurrency", 10)
    ps_value,        \* the semaphore's counter
    ps_task,         \* per result: "none" (no task), "created", "posting", "done"
    ps_posts,        \* per result: POST /crawl requests issued for it
    ps_pc            \* "gathering", or "returned" once gather has returned

psvars == <<ps_n, ps_max_urls, ps_concurrency, ps_value, ps_task, ps_posts, ps_pc>>

\* tasks = [scrape_one(result.url, result.title) for result in search_results[:max_urls]]
scrape_tasks(n, max_urls) ==
    [i \in 1..n |-> IF i <= Min(n, max_urls) THEN "created" ELSE "none"]

\* variant: scrape_one does not wait for the semaphore
semaphore_acquire_Unbounded(value) == <<TRUE, value - 1>>

\* async with semaphore, on entry: <<entered, counter afterwards>>; a task
\* that finds the counter at zero waits
semaphore_acquire(value) ==
    IF value > 0 THEN <<TRUE, value - 1>> ELSE <<FALSE, value>>

\* async with semaphore, on exit
semaphore_release(value) == value + 1

InitScrape ==
    /\ ps_n \in 0..MaxScrapeResults
    /\ ps_max_urls \in 1..MaxScrapeResults
    /\ ps_concurrency \in 1..MaxConcurrency
    /\ ps_value = ps_concurrency
    /\ ps_task = scrape_tasks(ps_n, ps_max_urls)
    /\ ps_posts = [i \in 1..ps_n |-> 0]
    /\ ps_pc = "gathering"

IdleScrape ==
    /\ ps_n = 0 /\ ps_max_urls = 1 /\ ps_concurrency = 1 /\ ps_value = 1
    /\ ps_task = <<>> /\ ps_posts = <<>> /\ ps_pc = "returned"

\* scrape_one enters the semaphore and sends its POST /crawl
ScrapeOnePosts(i) ==
    /\ ps_pc = "gathering"
    /\ ps_task[i] = "created"
    /\ semaphore_acquire(ps_value)[1]
    /\ ps_value' = semaphore_acquire(ps_value)[2]
    /\ ps_task' = [ps_task EXCEPT ![i] = "posting"]
    /\ ps_posts' = [ps_posts EXCEPT ![i] = @ + 1]
    /\ UNCHANGED <<ps_n, ps_max_urls, ps_concurrency, ps_pc>>

\* the POST returns or raises: scrape_one returns a ScrapedContent either
\* way and leaves the semaphore
ScrapeOneReturns(i) ==
    /\ ps_pc = "gathering"
    /\ ps_task[i] = "posting"
    /\ ps_value' = semaphore_release(ps_value)
    /\ ps_task' = [ps_task EXCEPT ![i] = "done"]
    /\ UNCHANGED <<ps_n, ps_max_urls, ps_concurrency, ps_posts, ps_pc>>

\* results = await asyncio.gather(*tasks), once every task is done
GatherReturns ==
    /\ ps_pc = "gathering"
    /\ \A i \in 1..ps_n : ps_task[i] \in {"none", "done"}
    /\ ps_pc' = "returned"
    /\ UNCHANGED <<ps_n, ps_max_urls, ps_concurrency, ps_value, ps_task, ps_posts>>

NextScrape ==
    \/ \E i \in 1..ps_n : ScrapeOnePosts(i)
    \/ \E i \in 1..ps_n : ScrapeOneReturns(i)
    \/ GatherReturns

(***************************************************************************)
(* PART 8.  ProviderManager.select_provider                                *)
(* (llm_gateway/services/provider_manager.py).  What the providers report  *)
(* and which breakers are open changes between the calls.                  *)
(***************************************************************************)
\* longest exclude list passed, and largest avg_latency drawn
MaxExclude == 1
MaxLatency == 1

VARIABLES
    sp_reports,   \* the providers whose is_available() answers True
    sp_open,      \* the providers whose circuit breaker is open
    sp_index,     \* self.round_robin_index
    sp_args,      \* the last call's preferred_provider and exclude
    sp_result,    \* what the last call returned
    sp_pc,        \* "called" while a call of select_provider is being served
    sp_rr_avail,  \* the list the last round-robin selection chose from
    sp_rr_run     \* what the round-robin selections from that list returned

spvars == <<sp_reports, sp_open, sp_index, sp_args, sp_result, sp_pc,
            sp_rr_avail, sp_rr_run>>

\* self.providers, in registration order
Registered == <<"gemini", "github_models", "ollama">>

SPProviders == {Registered[i] : i \in 1..Len(Registered)}

RoutingStrategy ==
    {"round_robin", "least_latency", "lowest_cost", "highest_quality",
     "random", "failover"}

cost_order == <<"ollama", "groq", "gemini">>

quality_order == <<"gemini", "groq", "ollama">>

\* the lists without repetition over S of length n at most
RECURSIVE ListsUpTo(_, _)
ListsUpTo(S, n) ==
    IF n = 0 THEN {<<>>}
    ELSE LET shorter == ListsUpTo(S, n - 1)
         IN  shorter \cup {Append(l, x) : l \in shorter, x \in S}

Elements(l) == {l[i] : i \in 1..Len(l)}

\* variant: an open breaker does not take a provider off the list
get_available_providers_IgnoresBreaker(reports, open) ==
    SelectSeq(Registered, LAMBDA p : p \in reports)

\* get_available_providers
get_available_providers(reports, open) ==
    SelectSeq(Registered, LAMBDA p : p \in reports /\ p \notin open)

\* for provider in order: if provider in available: return provider
\* return available[0]
first_in_order(order, available) ==
    LET hits == SelectSeq(order, LAMBDA p : p \in Elements(available))
    IN  IF hits # <<>> THEN hits[1] ELSE available[1]

\* min(available, key=lambda p: avg_latency[p]): the first of the smallest
least_latency(available, avg_latency) ==
    LET best == CHOOSE i \in 1..Len(available) :
                  /\ \A j \in 1..Len(available) :
                       avg_latency[available[i]] <= avg_latency[available[j]]
                  /\ \A j \in 1..(i - 1) :
                       avg_latency[available[j]] > avg_latency[available[i]]
    IN  available[best]

\* variant: the index is advanced without the modulo
round_robin_next_Unwrapped(index, n) == index + 1

\* (self.round_robin_index + 1) % len(available)
round_robin_next(index, n) == (index + 1) % n

\* available[index] with a 0-based index
ListGet(available, index) ==
    IF index < Len(available) THEN available[index + 1] ELSE "IndexError"

\* select_provider past the preferred provider: <<returned, index afterwards>>
\* pick is what random.choice draws
by_strategy(strategy, available, index, avg_latency, pick) ==
    CASE strategy = "random" -> <<pick, index>>
      [] strategy = "round_robin" ->
            <<ListGet(available, round_robin_next(index, Len(available))),
              round_robin_next(index, Len(available))>>
      [] strategy = "least_latency" ->
            <<least_latency(available, avg_latency), index>>
      [] strategy = "lowest_cost" -> <<first_in_order(cost_order, available), index>>
      [] strategy = "highest_quality" ->
            <<first_in_order(quality_order, available), index>>
      [] strategy = "failover" -> <<first_in_order(quality_order, available), index>>

\* select_provider: <<returned (None or Some(provider)), index afterwards>>
select_provider(reports, open, index, strategy, preferred_provider, exclude, avg_latency, pick) ==
    LET all == get_available_providers(reports, open)
        available == SelectSeq(all, LAMBDA p : p \notin Elements(exclude))
    IN  IF available = <<>> THEN <<None, index>>
        ELSE IF preferred_provider # None
                /\ preferred_provider[1] \in Elements(available)
        THEN <<preferred_provider, index>>
        ELSE LET out == by_strategy(strategy, available, index, avg_latency, pick)
             IN  <<Some(out[1]), out[2]>>

NoArgs == [preferred_provider |-> None, exclude |-> <<>>]

InitSelect ==
    /\ sp_reports \in SUBSET SPProviders
    /\ sp_open = {}
    /\ sp_index = 0
    /\ sp_args = NoArgs
    /\ sp_result = None
    /\ sp_pc = "idle"
    /\ sp_rr_avail = <<>>
    /\ sp_rr_run = <<>>

IdleSelect ==
    /\ sp_reports = {} /\ sp_open = {} /\ sp_index = 0 /\ sp_args = NoArgs
    /\ sp_result = None /\ sp_pc = "idle" /\ sp_rr_avail = <<>> /\ sp_rr_run = <<>>

\* what random.choice(available) can draw under the strategy
Picks(strategy, available) ==
    IF strategy = "random" /\ available # <<>>
    THEN Elements(available) ELSE {Registered[1]}

\* the avg_latency statistics that matter under the strategy
Latencies(strategy) ==
    IF strategy = "least_latency"
    THEN [SPProviders -> 0..MaxLatency] ELSE {[p \in SPProviders |-> 0]}

\* the list select_provider chooses from
Available ==
    SelectSeq(get_available_providers(sp_reports, sp_open),
              LAMBDA p : p \notin Elements(sp_args.exclude))

\* select_provider is called: preferred_provider and exclude are bound
\* (exclude=None has the effect of an empty list)
SelectCall(preferred, exclude) ==
    /\ sp_pc = "idle"
    /\ sp_pc' = "called"
    /\ sp_args' = [preferred_provider |-> preferred, exclude |-> exclude]
    /\ UNCHANGED <<sp_reports, sp_open, sp_index, sp_result, sp_rr_avail, sp_rr_run>>

\* the body of select_provider(strategy, preferred_provider, exclude)
SelectReturn(strategy) ==
    /\ sp_pc = "called"
    /\ \E avg_latency \in Latencies(strategy), pick \in Picks(strategy, Available) :
         LET out == select_provider(sp_reports, sp_open, sp_index, strategy,
                                    sp_args.preferred_provider, sp_args.exclude,
                                    avg_latency, pick)
         IN  /\ sp_result' = out[1]
             /\ sp_index' = out[2]
    /\ sp_pc' = "idle"
    /\ UNCHANGED <<sp_reports, sp_open, sp_args>>

\* a caller of select_provider, with any arguments
SelectProviderCalled ==
    \E preferred \in {None} \cup {Some(p) : p \in SPProviders},
       exclude \in ListsUpTo(SPProviders, MaxExclude) :
      SelectCall(preferred, exclude)

SelectProviderReturns ==
    /\ \E strategy \in RoutingStrategy : SelectReturn(strategy)
    /\ UNCHANGED <<sp_rr_avail, sp_rr_run>>

\* the gateway's call: select_provider(strategy, preferred_provider=request.provider)
GatewayCalls ==
    \E preferred \in {None} \cup {Some(p) : p \in SPProviders} :
      SelectCall(preferred, <<>>)

\* the last n results of the round-robin selections made from one list of
\* n providers
RunAfter(avail, result) ==
    LET run == IF avail = sp_rr_avail THEN Append(sp_rr_run, result) ELSE <<result>>
        drop == IF Len(run) > Len(avail) THEN Len(run) - Len(avail) ELSE 0
    IN  SubSeq(run, drop + 1, Len(run))

\* the body for a request with routing_strategy round_robin; what the
\* round-robin branch returns is noted down
RoundRobinReturns ==
    /\ SelectReturn("round_robin")
    /\ IF Available # <<>>
          /\ (sp_args.preferred_provider = None
                \/ sp_args.preferred_provider[1] \notin Elements(Available))
       THEN /\ sp_rr_avail' = Available
            /\ sp_rr_run' = RunAfter(Available, sp_result'[1])
       ELSE UNCHANGED <<sp_rr_avail, sp_rr_run>>

\* a provider starts or stops answering is_available() with True
ReportChanges(p) ==
    /\ sp_reports' = IF p \in sp_reports THEN sp_reports \ {p} ELSE sp_reports \cup {p}
    /\ UNCHANGED <<sp_open, sp_index, sp_args, sp_result, sp_pc, sp_rr_avail, sp_rr_run>>

\* a provider's breaker opens, or leaves the open state
BreakerChanges(p) ==
    /\ sp_open' = IF p \in sp_open THEN sp_open \ {p} ELSE sp_open \cup {p}
    /\ UNCHANGED <<sp_reports, sp_index, sp_args, sp_result, sp_pc, sp_rr_avail, sp_rr_run>>

NextSelect ==
    \/ SelectProviderCalled
    \/ SelectProviderReturns
    \/ \E p \in SPProviders : ReportChanges(p)
    \/ \E p \in SPProviders : BreakerChanges(p)

NextRoundRobin ==
    \/ GatewayCalls
    \/ RoundRobinReturns
    \/ \E p \in SPProviders : ReportChanges(p)
    \/ \E p \in SPProviders : BreakerChanges(p)

(***************************************************************************)
(* PART 9.  SessionStorage.add_message (deepsearch/storage/sessions.py):   *)
(* the session is read, the message is appended to the copy read, and the  *)
(* copy is written back whole.  Several add_message calls for one session  *)
(* run on the event loop and interleave at their awaits.                   *)
(***************************************************************************)
\* messages the session holds at the start
MaxStoredMessages == 2

VARIABLES
    ss_stored,   \* the stored session's message list: None, or Some(list)
    ss_call,     \* per add_message call: pc, the Session object read, the returned value
    ss_acked,    \* the messages whose add_message returned True
    ss_deleted   \* history: a delete_session of the session has returned True

ssvars == <<ss_stored, ss_call, ss_acked, ss_deleted>>

\* the add_message calls, each with a message of its own
AddCalls == {"m1", "m2", "m3"}

NoCall == [pc |-> "idle", session |-> None, returned |-> None]

InitSessions ==
    /\ ss_stored \in {None} \cup {Some([i \in 1..n |-> "old"]) : n \in 0..MaxStoredMessages}
    /\ ss_call = [c \in AddCalls |-> NoCall]
    /\ ss_acked = {}
    /\ ss_deleted = FALSE

IdleSessions ==
    /\ ss_stored = None
    /\ ss_call = [c \in AddCalls |-> NoCall]
    /\ ss_acked = {}
    /\ ss_deleted = FALSE

\* variant: the message is appended to what is stored when the call saves
save_messages_Merging(stored, session, message) ==
    IF stored = None THEN Append(session, message) ELSE Append(stored[1], message)

\* session.messages.append(message); await self._save_session(session):
\* the stored list becomes the list of the copy read
save_messages(stored, session, message) == Append(session, message)

\* session = await self.get_session(session_id); if not session: return False
AddMessageGets(c) ==
    /\ ss_call[c].pc = "idle"
    /\ ss_call' = [ss_call EXCEPT ![c] =
                     IF ss_stored = None
                     THEN [pc |-> "done", session |-> None, returned |-> Some(FALSE)]
                     ELSE [pc |-> "read", session |-> ss_stored, returned |-> None]]
    /\ UNCHANGED <<ss_stored, ss_acked>>

\* append, _save_session, return True
AddMessageSaves(c) ==
    /\ ss_call[c].pc = "read"
    /\ ss_stored' = Some(save_messages(ss_stored, ss_call[c].session[1], c))
    /\ ss_call' = [ss_call EXCEPT ![c] =
                     [pc |-> "done", session |-> ss_stored', returned |-> Some(TRUE)]]
    /\ ss_acked' = ss_acked \cup {c}

\* the backend raises while the session is read or written: add_message
\* raises and nothing is stored
AddMessageRaises(c) ==
    /\ ss_call[c].pc \in {"idle", "read"}
    /\ ss_call' = [ss_call EXCEPT ![c] = [pc |-> "done", session |-> @.session,
                                          returned |-> None]]
    /\ UNCHANGED <<ss_stored, ss_acked>>

\* delete_session finds the session, removes it and returns True
DeleteSession ==
    /\ ss_stored # None
    /\ ss_stored' = None
    /\ ss_deleted' = TRUE
    /\ UNCHANGED <<ss_call, ss_acked>>

\* the add_message calls on a session that nobody deletes
NextSessions ==
    /\ \/ \E c \in AddCalls : AddMessageGets(c)
       \/ \E c \in AddCalls : AddMessageSaves(c)
       \/ \E c \in AddCalls : AddMessageRaises(c)
    /\ UNCHANGED ss_deleted

\* the add_message calls and a delete_session of the same session
NextSessionDeletes ==
    \/ NextSessions
    \/ DeleteSession

(***************************************************************************)
(* PART 10.  SearchProviderManager.query_provider of the search gateway    *)
(* and of the search agent (providers/provider_manager.py), for the        *)
(* Whoogle adapter, with the Redis-backed CircuitBreaker of each service   *)
(* (utils/system_components.py).                                           *)
(***************************************************************************)
\* failures counted in Redis before the exploration stops calling
MaxProviderFailures == 6

VARIABLES
    qp_service,   \* "search-gateway" or "search-agent"
    qp_failures,  \* the counter circuit:<provider>:failures
    qp_in,        \* what the last call met: the breaker's store, the HTTP call, the body
    qp_out        \* what the last call did: returned value and records on the breaker

qpvars == <<qp_service, qp_failures, qp_in, qp_out>>

SearchServices == {"search-gateway", "search-agent"}

\* self.failure_threshold of each service's CircuitBreaker
BreakerThreshold == [g \in SearchServices |-> IF g = "search-gateway" THEN 3 ELSE 5]

\* redis: "ok", or "raise" (connection error) on the reads of is_open and
\*        on the writes of record_success / record_failure
\* recent: the last failure is within reset_timeout
\* http:  "ok", or "transport" (RequestError, timeout, HTTPStatusError)
\* body:  "results" (well formed), "no_results" (well formed, none),
\*        "not_json", "no_key" (a JSON object without "results"),
\*        "not_object" (JSON that is no object)
QueryInputs ==
    [redis_read : {"ok", "raise"}, redis_write : {"ok", "raise"}, recent : BOOLEAN,
     http : {"ok", "transport"},
     body : {"results", "no_results", "not_json", "no_key", "not_object"}]

\* returned: "list", "empty" ([]), "none" (None) or "raised"; recorded: the
\* records made on the breaker; skipped: the breaker was found open
QueryOutput(returned, recorded, failures, skipped) ==
    [returned |-> returned, recorded |-> recorded, failures |-> failures,
     skipped |-> skipped]

\* record_success / record_failure of the gateway's breaker: a Redis error
\* is logged and swallowed
gateway_record(failures, in, what) ==
    IF in.redis_write = "raise" THEN <<<<>>, failures>>
    ELSE IF what = "success" THEN <<<<"success">>, 0>>
    ELSE <<<<"failure">>, failures + 1>>

\* variant: a body the parser cannot read is handled as a failed call
gateway_parse_Strict(body) ==
    CASE body = "results" -> "list"
      [] body = "no_results" -> "empty"
      [] OTHER -> "raise"

\* response.json() and _parse_whoogle: "list", "empty" or "raise"
gateway_parse(body) ==
    CASE body = "results" -> "list"
      [] body = "no_results" -> "empty"
      [] body = "not_json" -> "raise"
      [] body = "no_key" -> "empty"
      [] body = "not_object" -> "empty"

\* search-gateway query_provider
gateway_query_provider(failures, in) ==
    LET is_open == in.redis_read = "ok" /\ failures >= BreakerThreshold["search-gateway"]
        parsed == IF in.http = "ok" THEN gateway_parse(in.body) ELSE "raise"
        rec == gateway_record(failures, in, IF parsed = "raise" THEN "failure" ELSE "success")
    IN  IF is_open THEN QueryOutput("none", <<>>, failures, TRUE)
        ELSE QueryOutput(IF parsed = "raise" THEN "none" ELSE parsed, rec[1], rec[2], FALSE)

\* raw_results = response.json(); raw_results.get("results", []); the
\* parser: "list", "empty" or "raise"
agent_parse(body) ==
    CASE body = "results" -> "list"
      [] body = "no_results" -> "empty"
      [] body = "not_json" -> "raise"
      [] body = "no_key" -> "empty"
      [] body = "not_object" -> "raise"

\* search-agent query_provider: the breaker's calls are made outside the
\* try block and the agent's breaker does not catch Redis errors
agent_query_provider(failures, in) ==
    LET is_open == failures >= BreakerThreshold["search-agent"] /\ in.recent
        parsed == IF in.http = "ok" THEN agent_parse(in.body) ELSE "raise"
    IN  IF in.redis_read = "raise" THEN QueryOutput("raised", <<>>, failures, FALSE)
        ELSE IF is_open THEN QueryOutput("empty", <<>>, failures, TRUE)
        ELSE IF in.redis_write = "raise" THEN QueryOutput("raised", <<>>, failures, FALSE)
        ELSE IF parsed = "raise"
        THEN QueryOutput("empty", <<"failure">>, failures + 1, FALSE)
        ELSE QueryOutput(parsed, <<"success">>, 0, FALSE)

query_provider(service, failures, in) ==
    IF service = "search-gateway" THEN gateway_query_provider(failures, in)
    ELSE agent_query_provider(failures, in)

InitQuery ==
    /\ qp_service \in SearchServices
    /\ qp_failures = 0
    /\ qp_in = None
    /\ qp_out = None

IdleQuery ==
    /\ qp_service = "search-gateway" /\ qp_failures = 0 /\ qp_in = None /\ qp_out = None

\* await self.provider_manager.query_provider(client, WHOOGLE, query, request)
QueryProvider ==
    /\ qp_failures < MaxProviderFailures
    /\ \E in \in QueryInputs :
         LET out == query_provider(qp_service, qp_failures, in)
         IN  /\ qp_in' = Some(in)
             /\ qp_out' = Some(out)
             /\ qp_failures' = out.failures
    /\ UNCHANGED qp_service

\* the failures key expires in Redis
FailuresExpire ==
    /\ qp_failures > 0
    /\ qp_failures' = 0
    /\ UNCHANGED <<qp_service, qp_in, qp_out>>

NextQuery == QueryProvider \/ FailuresExpire

(***************************************************************************)
(* PART 11.  ResultRanker.rank_results (search-agent/ranking/              *)
(* result_ranker.py).  The scores are the ones the scoring passes have     *)
(* left on the results when the list is sorted; scores, dates and          *)
(* authorities are small numbers, an absent published_date ("" in the      *)
(* key) being 0.                                                           *)
(***************************************************************************)
\* longest list ranked, and largest score, date and authority drawn
MaxRanked == 3
MaxScore == 1

VARIABLES
    rk_input,    \* the results as passed, after the scoring passes
    rk_method,   \* sort_method
    rk_output,   \* the list returned
    rk_pc        \* "ready" or "ranked"

rkvars == <<rk_input, rk_method, rk_output, rk_pc>>

SortMethod == {"relevance", "date", "source_quality"}

\* what the key of the sort method reads of one result; the fields the
\* key does not read are left at 0
Scored(sort_method) ==
    [confidence : 0..MaxScore,
     published_date : IF sort_method = "date" THEN 0..MaxScore ELSE {0},
     domain_authority : IF sort_method = "source_quality" THEN 0..MaxScore ELSE {0}]

\* the key= function of each sort method
sort_key(sort_method, x) ==
    CASE sort_method = "relevance" -> <<x.confidence>>
      [] sort_method = "date" -> <<x.published_date, x.confidence>>
      [] sort_method = "source_quality" -> <<x.domain_authority, x.confidence>>

\* tuple comparison of Python: a < b
RECURSIVE TupleLess(_, _, _)
TupleLess(a, b, i) ==
    IF i > Len(a) THEN FALSE
    ELSE IF a[i] # b[i] THEN a[i] < b[i]
    ELSE TupleLess(a, b, i + 1)

\* variant: an element is placed before the elements with an equal key
goes_before_Unstable(sort_method, x, y) ==
    ~TupleLess(sort_key(sort_method, x), sort_key(sort_method, y), 1)

\* list.sort(key=..., reverse=True): an element passes the elements it is
\* placed after only if its key is greater: equal keys keep their order
goes_before(sort_method, x, y) ==
    TupleLess(sort_key(sort_method, y), sort_key(sort_method, x), 1)

\* the sorted list with x put in: in front of the first element x goes
\* before, or at the end
Insert(sort_method, sorted, x) ==
    LET ahead == {i \in 1..Len(sorted) : goes_before(sort_method, x, sorted[i])}
        k == IF ahead = {} THEN Len(sorted) + 1
             ELSE CHOOSE i \in ahead : \A j \in ahead : i <= j
    IN  SubSeq(sorted, 1, k - 1) \o <<x>> \o SubSeq(sorted, k, Len(sorted))

RECURSIVE SortFrom(_, _, _, _)
SortFrom(sort_method, results, i, sorted) ==
    IF i > Len(results) THEN sorted
    ELSE SortFrom(sort_method, results, i + 1, Insert(sort_method, sorted, results[i]))

\* rank_results: sort, then result.rank = i + 1
rank_results(results, sort_method) ==
    LET sorted == SortFrom(sort_method, results, 1, <<>>)
    IN  [i \in 1..Len(sorted) |->
           [place |-> sorted[i].place, confidence |-> sorted[i].confidence,
            published_date |-> sorted[i].published_date,
            domain_authority |-> sorted[i].domain_authority, rank |-> i]]

InitRanker ==
    /\ rk_method \in SortMethod
    /\ \E scored \in SeqsUpTo(Scored(rk_method), MaxRanked) :
         rk_input = [i \in 1..Len(scored) |->
                       [place |-> i, confidence |-> scored[i].confidence,
                        published_date |-> scored[i].published_date,
                        domain_authority |-> scored[i].domain_authority]]
    /\ rk_output = <<>>
    /\ rk_pc = "ready"

IdleRanker ==
    /\ rk_input = <<>> /\ rk_method = "relevance" /\ rk_output = <<>> /\ rk_pc = "ranked"

\* ranked_results = self.ranker.rank_results(request.query, fused_results, request.sort_by)
RankResults ==
    /\ rk_pc = "ready"
    /\ rk_output' = rank_results(rk_input, rk_method)
    /\ rk_pc' = "ranked"
    /\ UNCHANGED <<rk_input, rk_method>>

NextRanker == RankResults

(***************************************************************************)
(* PART 12.  RateLimiter._cleanup_old_buckets                              *)
(* (llm_gateway/services/rate_limiter.py): the user buckets, the requests  *)
(* that use them and the cleanup pass of the background loop.  Time is in  *)
(* ticks and token counts in bucket units, as in part 3.                   *)
(***************************************************************************)
\* bursts of requests, whole hours and further seconds explored
MaxCleanupBursts == 2
MaxCleanupHours == 2
MaxCleanupSeconds == 1

VARIABLES
    cu_buckets,  \* self.user_buckets: per user None or Some(TokenBucket)
    cu_now,      \* time.time()
    cu_bursts,   \* history: bursts of requests so far
    cu_pass      \* alternates with every cleanup pass

cuvars == <<cu_buckets, cu_now, cu_bursts, cu_pass>>

\* cutoff_time = time.time() - 3600
CleanupAge == 3600 * TicksPerSecond

\* calls that bring a full default-tier bucket below nine tenths
DrainCalls == (DefaultTier.capacity \div 10) + 1

\* n times bucket.consume() at the instant t
RECURSIVE ConsumeTimes(_, _, _)
ConsumeTimes(bucket, n, t) ==
    IF n = 0 THEN bucket ELSE ConsumeTimes(consume(bucket, 1, t)[1], n - 1, t)

\* variant: the bucket is brought up to date before it is looked at
is_inactive_Refilled(bucket, t) ==
    /\ bucket.last_refill < t - CleanupAge
    /\ _refill(bucket, t).tokens >= Tokens(bucket.capacity)

\* bucket.last_refill < cutoff_time and bucket.tokens >= bucket.capacity * 0.9
is_inactive(bucket, t) ==
    /\ bucket.last_refill < t - CleanupAge
    /\ bucket.tokens * 10 >= Tokens(bucket.capacity) * 9

\* _cleanup_old_buckets: the buckets that are left
_cleanup_old_buckets(buckets, t) ==
    [u \in DOMAIN buckets |->
        IF buckets[u] # None /\ is_inactive(buckets[u][1], t) THEN None ELSE buckets[u]]

InitCleanup ==
    /\ cu_buckets = [u \in Users |-> None]
    /\ cu_now = 0
    /\ cu_bursts = 0
    /\ cu_pass = FALSE

IdleCleanup == InitCleanup

\* n requests of one user within one instant: is_allowed gets or creates
\* the user's bucket and consumes one token per request
CleanupUse(u, n) ==
    /\ cu_bursts < MaxCleanupBursts
    /\ cu_bursts' = cu_bursts + 1
    /\ LET held == IF cu_buckets[u] # None THEN cu_buckets[u][1]
                   ELSE TokenBucket(user_config[TierOf[u]].capacity,
                                    user_config[TierOf[u]].refill_rate, cu_now)
       IN  cu_buckets' = [cu_buckets EXCEPT ![u] = Some(ConsumeTimes(held, n, cu_now))]
    /\ UNCHANGED <<cu_now, cu_pass>>

\* one second passes
CleanupSecond ==
    /\ cu_now % CleanupAge < MaxCleanupSeconds * TicksPerSecond
    /\ cu_now' = cu_now + TicksPerSecond
    /\ UNCHANGED <<cu_buckets, cu_bursts, cu_pass>>

\* one hour passes
CleanupHour ==
    /\ cu_now \div CleanupAge < MaxCleanupHours
    /\ cu_now' = cu_now + CleanupAge
    /\ UNCHANGED <<cu_buckets, cu_bursts, cu_pass>>

\* await self._cleanup_old_buckets()
CleanupPass ==
    /\ cu_buckets' = _cleanup_old_buckets(cu_buckets, cu_now)
    /\ cu_pass' = ~cu_pass
    /\ UNCHANGED <<cu_now, cu_bursts>>

NextCleanup ==
    \/ \E u \in Users, n \in {1, DrainCalls} : CleanupUse(u, n)
    \/ CleanupSecond
    \/ CleanupHour
    \/ CleanupPass

(***************************************************************************)
(* PART 13.  DeepSearchEngine._retrieve_chunks (deepsearch/core/engine.py):*)
(* the vector store's answer to /query is converted to VectorChunk         *)
(* objects.  Distances and scores are counted in steps of 1/DistanceSteps. *)
(***************************************************************************)
\* hits in one answer, largest distance of a hit, steps per unit of distance
MaxHits == 3
MaxDistance == 2
DistanceSteps == 2

VARIABLES
    vc_data,    \* the answer of the vector store
    vc_chunks,  \* the chunks returned by _retrieve_chunks
    vc_pc       \* "asked" before the call returns, "returned" after

vcvars == <<vc_data, vc_chunks, vc_pc>>

Max(a, b) == IF a >= b THEN a ELSE b

Distances == 0..(MaxDistance * DistanceSteps)

\* the answers of POST /query: an error, or documents with or without a
\* "distances" entry
QueryAnswers ==
    {[status |-> "error", documents |-> 0, distances |-> None]}
    \cup {[status |-> "ok", documents |-> n, distances |-> None] : n \in 0..MaxHits}
    \cup UNION {{[status |-> "ok", documents |-> n, distances |-> Some(d)] :
                    d \in [1..n -> Distances]} : n \in 0..MaxHits}

\* variant: the score is brought into [0,1]
similarity_score_Clamped(distance) ==
    IF distance = None THEN None
    ELSE Some(Max(0, Min(DistanceSteps, DistanceSteps - distance[1])))

\* similarity_score=1 - distance if distance is not None else None
similarity_score(distance) ==
    IF distance = None THEN None ELSE Some(DistanceSteps - distance[1])

\* the body of _retrieve_chunks: one VectorChunk per document, [] on any
\* exception
vector_chunks(data) ==
    IF data.status # "ok" THEN <<>>
    ELSE [i \in 1..data.documents |->
            [chunk_index |-> i,
             similarity_score |->
                similarity_score(IF data.distances = None THEN None
                                 ELSE Some(data.distances[1][i]))]]

InitRetrieve ==
    /\ vc_data \in QueryAnswers
    /\ vc_chunks = <<>>
    /\ vc_pc = "asked"

IdleRetrieve ==
    /\ vc_data = [status |-> "error", documents |-> 0, distances |-> None]
    /\ vc_chunks = <<>>
    /\ vc_pc = "asked"

\* chunks = await self._retrieve_chunks(query, top_k)
RetrieveChunks ==
    /\ vc_pc = "asked"
    /\ vc_chunks' = vector_chunks(vc_data)
    /\ vc_pc' = "returned"
    /\ UNCHANGED vc_data

NextRetrieve == RetrieveChunks

(***************************************************************************)
(* PART 14.  WorkflowEngine.execute_workflow                               *)
(* (workflow-automation/src/workflow_engine.py): the tasks of a manifest   *)
(* are executed one after another, then the outputs are processed.         *)
(***************************************************************************)
\* tasks in one manifest
MaxTasks == 3

VARIABLES
    wf_tasks,        \* spec.tasks of the manifest
    wf_outputs_fail, \* whether writing an output raises (os.makedirs, open)
    wf_next,         \* position of the for loop: index of the next task
    wf_ran,          \* history: indices of the tasks executed, in order
    wf_results,      \* task_results: task name -> None or Some(TaskResult)
    wf_status        \* "running", then "completed" or "raised"

wfvars == <<wf_tasks, wf_outputs_fail, wf_next, wf_ran, wf_results, wf_status>>

TaskNames == {"fetch", "answer"}

\* how the execution of a task ends: execute_task returns a result with
\* success, execute_task catches an error of the task, or an exception
\* reaches execute_workflow (task['type'] missing, resolve_parameters)
TaskOutcomes == {"ok", "error", "raises"}

Manifests ==
    UNION {[1..n -> [name : TaskNames, outcome : TaskOutcomes]] : n \in 0..MaxTasks}

\* TaskResult(name, success, result, error)
TaskResult(name, success, error) ==
    [name |-> name, success |-> success, error |-> error]

\* execute_task and the except clause of execute_workflow: the result
\* recorded for a task; the error text is str(e)
execute_task(task) ==
    IF task.outcome = "ok" THEN TaskResult(task.name, TRUE, None)
    ELSE TaskResult(task.name, FALSE, Some(task.outcome))

\* variant: the loop is left at the first task that fails
next_task_StopsOnFailure(i, n, result) ==
    IF result.success THEN i + 1 ELSE n + 1

\* for task in tasks: the loop goes on whatever the result is
next_task(i, n, result) == i + 1

InitWorkflow ==
    /\ wf_tasks \in Manifests
    /\ wf_outputs_fail \in BOOLEAN
    /\ wf_next = 1
    /\ wf_ran = <<>>
    /\ wf_results = [n \in TaskNames |-> None]
    /\ wf_status = "running"

IdleWorkflow ==
    /\ wf_tasks = <<>>
    /\ wf_outputs_fail = FALSE
    /\ wf_next = 1
    /\ wf_ran = <<>>
    /\ wf_results = [n \in TaskNames |-> None]
    /\ wf_status = "running"

\* one iteration of the loop over the tasks
WorkflowTask ==
    /\ wf_status = "running"
    /\ wf_next <= Len(wf_tasks)
    /\ LET task == wf_tasks[wf_next]
           result == execute_task(task)
       IN  /\ wf_results' = [wf_results EXCEPT ![task.name] = Some(result)]
           /\ wf_next' = next_task(wf_next, Len(wf_tasks), result)
    /\ wf_ran' = Append(wf_ran, wf_next)
    /\ UNCHANGED <<wf_tasks, wf_outputs_fail, wf_status>>

\* after the loop: the outputs are processed and the workflow returns
WorkflowReturns ==
    /\ wf_status = "running"
    /\ wf_next > Len(wf_tasks)
    /\ wf_status' = IF wf_outputs_fail THEN "raised" ELSE "completed"
    /\ UNCHANGED <<wf_tasks, wf_outputs_fail, wf_next, wf_ran, wf_results>>

NextWorkflow ==
    \/ WorkflowTask
    \/ WorkflowReturns

(***************************************************************************)
(* PART 15.  The /completion endpoint of the LLM gateway                   *)
(* (enhanced_api_gateway.py: get_completion and _stream_completion;        *)
(* provider_manager.py: execute_completion), one request after another:    *)
(* provider selection, the provider calls with their breakers and the      *)
(* records handed to the metrics service.                                  *)
(***************************************************************************)
\* requests served, times the clock advances by one recovery timeout
MaxGatewayRequests == 2
MaxGatewayTicks == 1

VARIABLES
    gw_breakers,    \* pm.circuit_breakers
    gw_streak,      \* pm.provider_stats[..]['error_streak']
    gw_now,         \* time.time(), in seconds
    gw_requests,    \* history: requests served so far
    gw_last,        \* history: the latest request and what it did
    gw_failed_run   \* history: failed provider calls in a row, per provider

gwvars == <<gw_breakers, gw_streak, gw_now, gw_requests, gw_last, gw_failed_run>>

\* the providers registered with the gateway
GWOrder == <<"gemini", "ollama">>

GWNames == {GWOrder[i] : i \in 1..Len(GWOrder)}

\* the providers whose breaker is open
OpenBreakers(breakers) == {p \in GWNames : breakers[p].state = "open"}

\* a breaker after k failed calls at time 0
RECURSIVE FailedCalls(_, _)
FailedCalls(b, k) ==
    IF k = 0 THEN b ELSE _record_failure(FailedCalls(b, k - 1), 0)

\* no request yet
NoCompletion ==
    [stream |-> FALSE, preferred |-> None, selected |-> None,
     invoked |-> <<>>, records |-> <<>>, status |-> "none",
     preferred_reports |-> FALSE]

\* one execute_completion frame up to the end of its provider call: the
\* is_open test, CircuitBreaker.call, the statistics and the record handed
\* to self.metrics_service
execute_frame(w, p, succeeds, t) ==
    LET b == w.breakers[p]
        adm == call_admission(b, t)
    IN  IF b.state = "open" \/ adm[2] # "admitted"
        THEN [w EXCEPT !.streak[p] = @ + 1,
                       !.records = Append(@, <<p, FALSE>>),
                       !.ok = FALSE]
        ELSE IF succeeds
        THEN [w EXCEPT !.breakers[p] = _record_success(adm[1], t),
                       !.streak[p] = 0,
                       !.invoked = Append(@, <<p, TRUE>>),
                       !.records = Append(@, <<p, TRUE>>),
                       !.ok = TRUE]
        ELSE [w EXCEPT !.breakers[p] = _record_failure(adm[1], t),
                       !.streak[p] = @ + 1,
                       !.invoked = Append(@, <<p, FALSE>>),
                       !.records = Append(@, <<p, FALSE>>),
                       !.ok = FALSE]

\* execute_completion(provider_name, request, fallback): the frame of the
\* selected provider and, from its except block, the frame of the first
\* other available provider
execute_request(w, p, fallback, reports, ok, t) ==
    LET w1 == execute_frame(w, p, p \in ok, t)
        candidates ==
            fallback_providers(
                get_available_providers(reports, OpenBreakers(w1.breakers)), p)
    IN  IF w1.ok THEN w1
        ELSE IF fallback_wanted(fallback, w1.streak[p]) /\ candidates # <<>>
        THEN execute_frame(w1, candidates[1], candidates[1] \in ok, t)
        ELSE w1

\* variant: the streamed call is made through the provider's breaker
stream_request_Guarded(w, p, succeeds, t) ==
    execute_frame(w, p, succeeds, t)

\* _stream_completion: provider.get_streaming_completion is called on the
\* provider itself, and the outcome is handed to the metrics service
stream_request(w, p, succeeds, t) ==
    [w EXCEPT !.invoked = Append(@, <<p, succeeds>>),
              !.records = Append(@, <<p, succeeds>>),
              !.ok = succeeds]

\* get_completion after the selection: the streamed or the blocking call,
\* and for the blocking call the record of the endpoint itself
get_completion(w, stream, selected, fallback, reports, ok, t) ==
    IF stream THEN stream_request(w, selected, selected \in ok, t)
    ELSE LET w1 == execute_request(w, selected, fallback, reports, ok, t)
         IN  [w1 EXCEPT !.records = Append(@, <<selected, w1.ok>>)]

\* the failed calls in a row after the provider calls of one request
RECURSIVE FailedRun(_, _, _)
FailedRun(run, invoked, i) ==
    IF i > Len(invoked) THEN run
    ELSE FailedRun([run EXCEPT ![invoked[i][1]] = IF invoked[i][2] THEN 0 ELSE @ + 1],
                   invoked, i + 1)

\* the breakers as ProviderManager.start() builds them; one provider has
\* had some failed blocking calls in a row before the requests start
InitGateway ==
    /\ \E p \in GWNames, k \in 0..Min(MaxPriorFailures, ProviderBreaker.failure_threshold) :
         /\ gw_breakers = [q \in GWNames |->
                              IF q = p THEN FailedCalls(ProviderBreaker, k)
                              ELSE ProviderBreaker]
         /\ gw_streak = [q \in GWNames |-> IF q = p THEN k ELSE 0]
         /\ gw_failed_run = [q \in GWNames |-> IF q = p THEN k ELSE 0]
    /\ gw_now = 0
    /\ gw_requests = 0
    /\ gw_last = NoCompletion

IdleGateway ==
    /\ gw_breakers = [q \in GWNames |-> ProviderBreaker]
    /\ gw_streak = [q \in GWNames |-> 0]
    /\ gw_failed_run = [q \in GWNames |-> 0]
    /\ gw_now = 0
    /\ gw_requests = 0
    /\ gw_last = NoCompletion

\* POST /completion, from select_provider to the response.  reports are
\* the providers answering is_available() with True, ok those whose call
\* would succeed; any routing strategy may pick any available provider.
\* preferred_reports notes whether the preferred provider is among reports.
Completion(stream, preferred, fallback, reports, ok) ==
    /\ gw_requests < MaxGatewayRequests
    /\ gw_requests' = gw_requests + 1
    /\ LET available == get_available_providers(reports, OpenBreakers(gw_breakers))
           choices == IF preferred # None /\ preferred[1] \in Elements(available)
                      THEN {preferred[1]} ELSE Elements(available)
           preferred_reports == preferred # None /\ preferred[1] \in reports
       IN  IF choices = {}
           THEN /\ gw_last' = [NoCompletion EXCEPT !.stream = stream,
                                  !.preferred = preferred,
                                  !.preferred_reports = preferred_reports,
                                  !.status = "unavailable"]
                /\ UNCHANGED <<gw_breakers, gw_streak, gw_failed_run>>
           ELSE \E selected \in choices :
                  LET w == get_completion(
                              [breakers |-> gw_breakers, streak |-> gw_streak,
                               invoked |-> <<>>, records |-> <<>>, ok |-> FALSE],
                              stream, selected, fallback, reports, ok, gw_now)
                  IN  /\ gw_breakers' = w.breakers
                      /\ gw_streak' = w.streak
                      /\ gw_failed_run' = FailedRun(gw_failed_run, w.invoked, 1)
                      /\ gw_last' = [stream |-> stream, preferred |-> preferred,
                                     selected |-> Some(selected),
                                     invoked |-> w.invoked, records |-> w.records,
                                     status |-> IF w.ok THEN "ok" ELSE "error",
                                     preferred_reports |-> preferred_reports]
    /\ UNCHANGED gw_now

\* a request, with any body and any behaviour of the providers
GatewayRequest ==
    \E stream \in BOOLEAN, fallback \in BOOLEAN,
       preferred \in {None} \cup {Some(p) : p \in GWNames},
       reports \in SUBSET GWNames, ok \in SUBSET GWNames :
      Completion(stream, preferred, fallback, reports, ok)

\* a recovery timeout passes
GatewayTick ==
    /\ gw_now < MaxGatewayTicks * ProviderBreaker.recovery_timeout
    /\ gw_now' = gw_now + ProviderBreaker.recovery_timeout
    /\ UNCHANGED <<gw_breakers, gw_streak, gw_requests, gw_last, gw_failed_run>>

NextGateway ==
    \/ GatewayRequest
    \/ GatewayTick

(***************************************************************************)
(* PART 16.  The worker pool of the local-model gateway                    *)
(* (ollama-api-server-docker/src/api-gateway/main.py): worker_states, the  *)
(* monitors of pending workers, spawn and prune, and the proxied requests. *)
(* Worker n stands for the URL http://ollama-worker-n:11434.  Every step   *)
(* that writes worker_states runs under the lock, so it is one action.     *)
(***************************************************************************)
\* worker containers at one time, spawn and prune operations
MaxPoolWorkers == 2
MaxSpawns == 2
MaxPrunes == 1

VARIABLES
    wp_containers,  \* the numbers of the worker containers docker lists
    wp_order,       \* the keys of worker_states, in insertion order
    wp_states,      \* worker_states: "PENDING", "IDLE", "BUSY"; "ABSENT" for no key
    wp_monitors,    \* running monitor_pending_worker tasks per worker
    wp_req,         \* the proxied requests: position and assigned worker
    wp_ops          \* history: <<spawns, prunes>> so far

wpvars == <<wp_containers, wp_order, wp_states, wp_monitors, wp_req, wp_ops>>

PoolWorkers == 1..MaxPoolWorkers

PoolRequests == {"q1", "q2"}

\* the positions at which a request holds the worker get_idle_worker gave it
InFlightPositions == {"assigned", "responding", "streaming"}

\* worker_states[worker_url] = state
SetState(order, states, w, state) ==
    [order |-> IF states[w] = "ABSENT" THEN Append(order, w) ELSE order,
     states |-> [states EXCEPT ![w] = state]]

\* idle_workers = [url for url, state in worker_states.items() if state == "IDLE"]
idle_workers(order, states) ==
    SelectSeq(order, LAMBDA w : states[w] = "IDLE")

\* next_num = max(existing_numbers) + 1 if existing_numbers else 1
next_num(containers) ==
    IF containers = {} THEN 1
    ELSE (CHOOSE n \in containers : \A m \in containers : m <= n) + 1

\* startup_discover_workers: the containers found are PENDING and monitored
InitPool ==
    /\ \E k \in 0..MaxPoolWorkers :
         /\ wp_containers = 1..k
         /\ wp_order = [i \in 1..k |-> i]
         /\ wp_states = [w \in PoolWorkers |-> IF w <= k THEN "PENDING" ELSE "ABSENT"]
         /\ wp_monitors = [w \in PoolWorkers |-> IF w <= k THEN 1 ELSE 0]
    /\ wp_req = [r \in PoolRequests |-> [pc |-> "idle", worker |-> 0]]
    /\ wp_ops = <<0, 0>>

IdlePool ==
    /\ wp_containers = {}
    /\ wp_order = <<>>
    /\ wp_states = [w \in PoolWorkers |-> "ABSENT"]
    /\ wp_monitors = [w \in PoolWorkers |-> 0]
    /\ wp_req = [r \in PoolRequests |-> [pc |-> "idle", worker |-> 0]]
    /\ wp_ops = <<0, 0>>

\* POST /admin/instances/spawn
SpawnInstance ==
    LET n == next_num(wp_containers)
        set == SetState(wp_order, wp_states, n, "PENDING")
    IN  /\ wp_ops[1] < MaxSpawns
        /\ n <= MaxPoolWorkers
        /\ wp_containers' = wp_containers \cup {n}
        /\ wp_order' = set.order
        /\ wp_states' = set.states
        /\ wp_monitors' = [wp_monitors EXCEPT ![n] = @ + 1]
        /\ wp_ops' = <<wp_ops[1] + 1, wp_ops[2]>>
        /\ UNCHANGED wp_req

\* POST /admin/instances/prune: every container is removed, workers and
\* worker_states are cleared; tasks and requests go on
PruneInstances ==
    /\ wp_ops[2] < MaxPrunes
    /\ wp_containers' = {}
    /\ wp_order' = <<>>
    /\ wp_states' = [w \in PoolWorkers |-> "ABSENT"]
    /\ wp_ops' = <<wp_ops[1], wp_ops[2] + 1>>
    /\ UNCHANGED <<wp_monitors, wp_req>>

\* monitor_pending_worker: is_worker_ready answers True, the worker is set
\* to IDLE and the task ends
MonitorSetsIdle(w) ==
    LET set == SetState(wp_order, wp_states, w, "IDLE")
    IN  /\ wp_monitors[w] > 0
        /\ w \in wp_containers
        /\ wp_order' = set.order
        /\ wp_states' = set.states
        /\ wp_monitors' = [wp_monitors EXCEPT ![w] = @ - 1]
        /\ UNCHANGED <<wp_containers, wp_req, wp_ops>>

\* monitor_pending_worker: the pull fails and the task returns
MonitorGivesUp(w) ==
    /\ wp_monitors[w] > 0
    /\ wp_monitors' = [wp_monitors EXCEPT ![w] = @ - 1]
    /\ UNCHANGED <<wp_containers, wp_order, wp_states, wp_req, wp_ops>>

\* variant: a worker somebody still holds is never handed out
get_idle_worker_Exclusive(order, states, held) ==
    SelectSeq(idle_workers(order, states), LAMBDA w : w \notin held)

\* get_idle_worker: the workers it can return (the first one is taken)
get_idle_worker(order, states, held) == idle_workers(order, states)

\* reverse_proxy: worker_url = await get_idle_worker(), with an idle worker
GetIdleWorker(r) ==
    LET held == {wp_req[q].worker : q \in {q \in PoolRequests :
                                              wp_req[q].pc \in InFlightPositions}}
        idle == get_idle_worker(wp_order, wp_states, held)
    IN  /\ wp_req[r].pc = "idle"
        /\ idle # <<>>
        /\ wp_states' = [wp_states EXCEPT ![idle[1]] = "BUSY"]
        /\ wp_req' = [wp_req EXCEPT ![r] = [pc |-> "assigned", worker |-> idle[1]]]
        /\ UNCHANGED <<wp_containers, wp_order, wp_monitors, wp_ops>>

\* worker_states[worker_url] = "IDLE"; notify_all(), and the request ends
ResetsWorker(r) ==
    LET set == SetState(wp_order, wp_states, wp_req[r].worker, "IDLE")
    IN  /\ wp_order' = set.order
        /\ wp_states' = set.states
        /\ wp_req' = [wp_req EXCEPT ![r].pc = "done"]
        /\ UNCHANGED <<wp_containers, wp_monitors, wp_ops>>

\* the request ends and no handler or finally block runs
LeavesWorker(r) ==
    /\ wp_req' = [wp_req EXCEPT ![r].pc = "done"]
    /\ UNCHANGED <<wp_containers, wp_order, wp_states, wp_monitors, wp_ops>>

\* http_client.send returns: the StreamingResponse around the generator is
\* returned
ProxyResponds(r) ==
    /\ wp_req[r].pc = "assigned"
    /\ wp_req' = [wp_req EXCEPT ![r].pc = "responding"]
    /\ UNCHANGED <<wp_containers, wp_order, wp_states, wp_monitors, wp_ops>>

\* request.body() or http_client.send raises an Exception: one of the
\* except blocks of reverse_proxy resets the worker
ProxyFails(r) ==
    /\ wp_req[r].pc = "assigned"
    /\ ResetsWorker(r)

\* the task of reverse_proxy is cancelled at one of its awaits:
\* CancelledError is no Exception and reverse_proxy has no finally block
ProxyCancelled(r) ==
    /\ wp_req[r].pc = "assigned"
    /\ LeavesWorker(r)

\* the response starts to iterate stream_response_generator
StreamStarts(r) ==
    /\ wp_req[r].pc = "responding"
    /\ wp_req' = [wp_req EXCEPT ![r].pc = "streaming"]
    /\ UNCHANGED <<wp_containers, wp_order, wp_states, wp_monitors, wp_ops>>

\* the client is gone before the generator is iterated for the first time:
\* a generator that never started runs no finally block
StreamNeverStarts(r) ==
    /\ wp_req[r].pc = "responding"
    /\ LeavesWorker(r)

\* the stream ends, the upstream fails or the generator is closed while
\* streaming: the finally block of stream_response_generator runs
StreamEnds(r) ==
    /\ wp_req[r].pc = "streaming"
    /\ ResetsWorker(r)

NextPool ==
    \/ SpawnInstance
    \/ PruneInstances
    \/ \E w \in PoolWorkers : MonitorSetsIdle(w)
    \/ \E w \in PoolWorkers : MonitorGivesUp(w)
    \/ \E r \in PoolRequests : GetIdleWorker(r)
    \/ \E r \in PoolRequests : ProxyResponds(r)
    \/ \E r \in PoolRequests : ProxyFails(r)
    \/ \E r \in PoolRequests : ProxyCancelled(r)
    \/ \E r \in PoolRequests : StreamStarts(r)
    \/ \E r \in PoolRequests : StreamNeverStarts(r)
    \/ \E r \in PoolRequests : StreamEnds(r)

(***************************************************************************)
(* PART 17.  DeepSearchEngine._split_into_chunks (deepsearch/core/         *)
(* engine.py): the while loop, one iteration per step.  A text is          *)
(* represented by its length and a chunk by the slice it covers.           *)
(***************************************************************************)
\* length of the text, configured chunk_size and chunk_overlap
MaxTextLen == 4
MaxChunkSize == 3
MaxChunkOverlap == 3

VARIABLES
    ck_text,     \* len(text)
    ck_size,     \* chunk_size
    ck_overlap,  \* overlap
    ck_start,    \* start
    ck_chunks,   \* chunks: the slices <<from, to>> appended so far
    ck_pc        \* "looping", then "returned"

ckvars == <<ck_text, ck_size, ck_overlap, ck_start, ck_chunks, ck_pc>>

\* iterations explored of a loop that does not end; a loop that ends makes
\* at most len(text) iterations
ChunkSteps == MaxTextLen + 1

\* an index of a slice as Python reads it: a negative index counts from the
\* end, and the result is clipped to the text
SliceIndex(i, n) ==
    IF i < 0 THEN Max(0, i + n) ELSE Min(i, n)

\* text[start:end]
Slice(start, end, n) ==
    <<SliceIndex(start, n), Max(SliceIndex(start, n), SliceIndex(end, n))>>

\* variant: the loop always moves forward by one character at least
next_start_Forward(start, chunk_size, overlap) ==
    Max(start + 1, start + chunk_size - overlap)

\* end = start + chunk_size; start = end - overlap
next_start(start, chunk_size, overlap) ==
    (start + chunk_size) - overlap

\* chunk_size and chunk_overlap come from the configuration unchecked
InitChunker ==
    /\ ck_text \in 0..MaxTextLen
    /\ ck_size \in 1..MaxChunkSize
    /\ ck_overlap \in 0..MaxChunkOverlap
    /\ ck_start = 0
    /\ ck_chunks = <<>>
    /\ ck_pc = "looping"

IdleChunker ==
    /\ ck_text = 0
    /\ ck_size = 1
    /\ ck_overlap = 0
    /\ ck_start = 0
    /\ ck_chunks = <<>>
    /\ ck_pc = "looping"

\* one iteration of while start < len(text)
ChunkLoop ==
    /\ ck_pc = "looping"
    /\ ck_start < ck_text
    /\ Len(ck_chunks) < ChunkSteps
    /\ ck_chunks' = Append(ck_chunks, Slice(ck_start, ck_start + ck_size, ck_text))
    /\ ck_start' = next_start(ck_start, ck_size, ck_overlap)
    /\ UNCHANGED <<ck_text, ck_size, ck_overlap, ck_pc>>

\* the loop condition fails: return chunks
ChunkReturn ==
    /\ ck_pc = "looping"
    /\ ck_start >= ck_text
    /\ ck_pc' = "returned"
    /\ UNCHANGED <<ck_text, ck_size, ck_overlap, ck_start, ck_chunks>>

NextChunker ==
    \/ ChunkLoop
    \/ ChunkReturn

(***************************************************************************)
(* Specifications.                                                         *)
(***************************************************************************)
\* the subsystems of parts 7 and later, at rest
morevars == <<psvars, spvars, ssvars, qpvars, rkvars, cuvars, vcvars, wfvars, gwvars, wpvars, ckvars>>

IdleMore ==
    /\ IdleScrape
    /\ IdleSelect
    /\ IdleSessions
    /\ IdleQuery
    /\ IdleRanker
    /\ IdleCleanup
    /\ IdleRetrieve
    /\ IdleWorkflow
    /\ IdleGateway
    /\ IdlePool
    /\ IdleChunker

\* the subsystems of parts 4 and later
extravars == <<ddvars, pmvars, gsvars, morevars>>

IdleExtra == IdleFanout /\ IdleManager /\ IdleStream /\ IdleMore

vars == <<pvars, cbvars, now, tbvars, swvars, rlvars, s4vars, extravars>>

IdlePipeline ==
    /\ request = [enable_scraping |-> TRUE, enable_rag |-> TRUE,
                  enable_synthesis |-> TRUE, has_session |-> FALSE,
                  max_scrape_urls |-> 1]
    /\ config = [scraping_enabled |-> TRUE, rag_enabled |-> TRUE,
                 sessions_enabled |-> FALSE]
    /\ pc = "start"
    /\ events = <<>>
    /\ search_results = <<>>
    /\ scraped_content = <<>>
    /\ rag_chunks = 0
    /\ answer_parts = <<>>
    /\ llm_out = <<>>
    /\ session_log = <<>>
    /\ store = 0
    /\ response = <<>>
    /\ calls = {}
    /\ faults = {}
    /\ scrape_order = <<>>

\* the rate limiter objects at rest
IdleRate == now = 0 /\ IdleBucket /\ IdleWindow /\ IdleLimiter /\ IdleScenario

\* everything but the /deepsearch pipeline at rest
IdleOthers == IdleBreaker /\ IdleRate /\ IdleExtra

ratevars == <<now, tbvars, swvars, rlvars, s4vars>>

\* the /deepsearch pipeline
Init == InitPipeline /\ IdleOthers

Next == NextPipeline /\ UNCHANGED <<cbvars, ratevars, extravars>>

Spec == Init /\ [][Next]_vars

\* the circuit breaker
InitCB == IdlePipeline /\ InitBreaker /\ IdleRate /\ IdleExtra

NextCB == NextBreaker /\ UNCHANGED <<pvars, ratevars, extravars>>

SpecCB == InitCB /\ [][NextCB]_vars

\* one token bucket
InitTB ==
    /\ IdlePipeline /\ IdleBreaker /\ IdleExtra
    /\ now = 0 /\ InitBucket /\ IdleWindow /\ IdleLimiter /\ IdleScenario

NextTB == NextBucket /\ UNCHANGED <<pvars, cbvars, swvars, rlvars, s4vars, extravars>>

SpecTB == InitTB /\ [][NextTB]_vars

\* one sliding window
InitSW ==
    /\ IdlePipeline /\ IdleBreaker /\ IdleExtra
    /\ now = 0 /\ IdleBucket /\ InitWindow /\ IdleLimiter /\ IdleScenario

NextSW == NextWindow /\ UNCHANGED <<pvars, cbvars, tbvars, rlvars, s4vars, extravars>>

SpecSW == InitSW /\ [][NextSW]_vars

\* the rate limiter
InitRL ==
    /\ IdlePipeline /\ IdleBreaker /\ IdleExtra
    /\ now = 0 /\ IdleBucket /\ IdleWindow /\ InitLimiter /\ IdleScenario

NextRL == NextLimiter /\ UNCHANGED <<pvars, cbvars, tbvars, swvars, s4vars, extravars>>

SpecRL == InitRL /\ [][NextRL]_vars

\* the burst scenario
InitS4 ==
    /\ IdlePipeline /\ IdleBreaker /\ IdleExtra
    /\ now = 0 /\ IdleWindow /\ IdleLimiter /\ InitScenario
    /\ tb = TokenBucket(DefaultTier.capacity, DefaultTier.refill_rate, 0)
    /\ tb_result = FALSE /\ tb_mark = None /\ tb_since = 0 /\ tb_asked = 0

NextS4 ==
    /\ NextScenario
    /\ UNCHANGED <<pvars, cbvars, swvars, tb_mark, tb_since, tb_asked,
                   rl_last, rl_calls, rl_free, rl_script, extravars>>

SpecS4 == InitS4 /\ [][NextS4]_vars

\* the circuit breaker with wrapped functions that raise any BaseException
NextCX ==
    /\ NextBreaker \/ CallRaisesBaseException
    /\ UNCHANGED <<pvars, ratevars, extravars>>

SpecCX == InitCB /\ [][NextCX]_vars

\* the /deepsearch pipeline with clients that disconnect
NextCancel == (NextPipeline \/ Cancel) /\ UNCHANGED <<cbvars, ratevars, extravars>>

SpecCancel == Init /\ [][NextCancel]_vars

\* the search fan-out
InitDD ==
    /\ IdlePipeline /\ IdleBreaker /\ IdleRate
    /\ InitFanout /\ IdleManager /\ IdleStream /\ IdleMore

NextDD == NextFanout /\ UNCHANGED <<pvars, cbvars, ratevars, pmvars, gsvars, morevars>>

SpecDD == InitDD /\ [][NextDD]_vars

\* the provider manager
InitPM ==
    /\ IdlePipeline /\ IdleBreaker /\ IdleRate
    /\ IdleFanout /\ InitManager /\ IdleStream /\ IdleMore

NextPM == NextManager /\ UNCHANGED <<pvars, cbvars, ratevars, ddvars, gsvars, morevars>>

SpecPM == InitPM /\ [][NextPM]_vars

\* a streaming completion
InitGS ==
    /\ IdlePipeline /\ IdleBreaker /\ IdleRate
    /\ IdleFanout /\ IdleManager /\ InitStream /\ IdleMore

NextGS == NextStream /\ UNCHANGED <<pvars, cbvars, ratevars, ddvars, pmvars, morevars>>

SpecGS == InitGS /\ [][NextGS]_vars

\* the subsystems of parts 7 and later
basevars == <<pvars, cbvars, ratevars, ddvars, pmvars, gsvars>>

IdleBase ==
    /\ IdlePipeline /\ IdleBreaker /\ IdleRate
    /\ IdleFanout /\ IdleManager /\ IdleStream

\* the scrape stage's dispatch
InitPS ==
    /\ IdleBase
    /\ InitScrape
    /\ IdleSelect
    /\ IdleSelect
    /\ IdleSessions
    /\ IdleQuery
    /\ IdleRanker
    /\ IdleCleanup
    /\ IdleRetrieve
    /\ IdleWorkflow
    /\ IdleGateway
    /\ IdleSessions
    /\ IdlePool
    /\ IdleChunker

NextPS ==
    /\ NextScrape
    /\ UNCHANGED <<basevars, spvars, spvars, ssvars, qpvars, rkvars, cuvars, vcvars, wfvars, gwvars, ssvars, wpvars, ckvars>>

SpecPS == InitPS /\ [][NextPS]_vars

\* select_provider
InitSP ==
    /\ IdleBase
    /\ InitSelect
    /\ IdleScrape
    /\ IdleSessions
    /\ IdleQuery
    /\ IdleRanker
    /\ IdleCleanup
    /\ IdleRetrieve
    /\ IdleWorkflow
    /\ IdleGateway
    /\ IdleSessions
    /\ IdlePool
    /\ IdleChunker

NextSP ==
    /\ NextSelect
    /\ UNCHANGED <<basevars, psvars, ssvars, qpvars, rkvars, cuvars, vcvars, wfvars, gwvars, ssvars, wpvars, ckvars>>

SpecSP == InitSP /\ [][NextSP]_vars

\* round-robin selections
InitRR ==
    /\ IdleBase
    /\ InitSelect
    /\ IdleScrape
    /\ IdleSessions
    /\ IdleQuery
    /\ IdleRanker
    /\ IdleCleanup
    /\ IdleRetrieve
    /\ IdleWorkflow
    /\ IdleGateway
    /\ IdleSessions
    /\ IdlePool
    /\ IdleChunker

NextRR ==
    /\ NextRoundRobin
    /\ UNCHANGED <<basevars, psvars, ssvars, qpvars, rkvars, cuvars, vcvars, wfvars, gwvars, ssvars, wpvars, ckvars>>

SpecRR == InitRR /\ [][NextRR]_vars

\* the session store
InitSS ==
    /\ IdleBase
    /\ InitSessions
    /\ IdleScrape
    /\ IdleSelect
    /\ IdleSelect
    /\ IdleQuery
    /\ IdleRanker
    /\ IdleCleanup
    /\ IdleRetrieve
    /\ IdleWorkflow
    /\ IdleGateway
    /\ IdlePool
    /\ IdleChunker

NextSS ==
    /\ NextSessions
    /\ UNCHANGED <<basevars, psvars, spvars, spvars, qpvars, rkvars, cuvars, vcvars, wfvars, gwvars, wpvars, ckvars>>

SpecSS == InitSS /\ [][NextSS]_vars

\* the search adapters
InitQP ==
    /\ IdleBase
    /\ InitQuery
    /\ IdleScrape
    /\ IdleSelect
    /\ IdleSelect
    /\ IdleSessions
    /\ IdleRanker
    /\ IdleCleanup
    /\ IdleRetrieve
    /\ IdleWorkflow
    /\ IdleGateway
    /\ IdleSessions
    /\ IdlePool
    /\ IdleChunker

NextQP ==
    /\ NextQuery
    /\ UNCHANGED <<basevars, psvars, spvars, spvars, ssvars, rkvars, cuvars, vcvars, wfvars, gwvars, ssvars, wpvars, ckvars>>

SpecQP == InitQP /\ [][NextQP]_vars

\* the ranker
InitRK ==
    /\ IdleBase
    /\ InitRanker
    /\ IdleScrape
    /\ IdleSelect
    /\ IdleSelect
    /\ IdleSessions
    /\ IdleQuery
    /\ IdleCleanup
    /\ IdleRetrieve
    /\ IdleWorkflow
    /\ IdleGateway
    /\ IdleSessions
    /\ IdlePool
    /\ IdleChunker

NextRK ==
    /\ NextRanker
    /\ UNCHANGED <<basevars, psvars, spvars, spvars, ssvars, qpvars, cuvars, vcvars, wfvars, gwvars, ssvars, wpvars, ckvars>>

SpecRK == InitRK /\ [][NextRK]_vars

\* the bucket cleanup
InitCU ==
    /\ IdleBase
    /\ InitCleanup
    /\ IdleScrape
    /\ IdleSelect
    /\ IdleSelect
    /\ IdleSessions
    /\ IdleQuery
    /\ IdleRanker
    /\ IdleRetrieve
    /\ IdleWorkflow
    /\ IdleGateway
    /\ IdleSessions
    /\ IdlePool
    /\ IdleChunker

NextCU ==
    /\ NextCleanup
    /\ UNCHANGED <<basevars, psvars, spvars, spvars, ssvars, qpvars, rkvars, vcvars, wfvars, gwvars, ssvars, wpvars, ckvars>>

SpecCU == InitCU /\ [][NextCU]_vars

\* the retrieve stage
InitVC ==
    /\ IdleBase
    /\ InitRetrieve
    /\ IdleScrape
    /\ IdleSelect
    /\ IdleSelect
    /\ IdleSessions
    /\ IdleQuery
    /\ IdleRanker
    /\ IdleCleanup
    /\ IdleWorkflow
    /\ IdleGateway
    /\ IdleSessions
    /\ IdlePool
    /\ IdleChunker

NextVC ==
    /\ NextRetrieve
    /\ UNCHANGED <<basevars, psvars, spvars, spvars, ssvars, qpvars, rkvars, cuvars, wfvars, gwvars, ssvars, wpvars, ckvars>>

SpecVC == InitVC /\ [][NextVC]_vars

\* the workflow engine
InitWF ==
    /\ IdleBase
    /\ InitWorkflow
    /\ IdleScrape
    /\ IdleSelect
    /\ IdleSelect
    /\ IdleSessions
    /\ IdleQuery
    /\ IdleRanker
    /\ IdleCleanup
    /\ IdleRetrieve
    /\ IdleGateway
    /\ IdleSessions
    /\ IdlePool
    /\ IdleChunker

NextWF ==
    /\ NextWorkflow
    /\ UNCHANGED <<basevars, psvars, spvars, spvars, ssvars, qpvars, rkvars, cuvars, vcvars, gwvars, ssvars, wpvars, ckvars>>

SpecWF == InitWF /\ [][NextWF]_vars

\* the /completion endpoint
InitGW ==
    /\ IdleBase
    /\ InitGateway
    /\ IdleScrape
    /\ IdleSelect
    /\ IdleSelect
    /\ IdleSessions
    /\ IdleQuery
    /\ IdleRanker
    /\ IdleCleanup
    /\ IdleRetrieve
    /\ IdleWorkflow
    /\ IdleSessions
    /\ IdlePool
    /\ IdleChunker

NextGW ==
    /\ NextGateway
    /\ UNCHANGED <<basevars, psvars, spvars, spvars, ssvars, qpvars, rkvars, cuvars, vcvars, wfvars, ssvars, wpvars, ckvars>>

SpecGW == InitGW /\ [][NextGW]_vars

\* the session store with deletion
InitSD ==
    /\ IdleBase
    /\ InitSessions
    /\ IdleScrape
    /\ IdleSelect
    /\ IdleSelect
    /\ IdleQuery
    /\ IdleRanker
    /\ IdleCleanup
    /\ IdleRetrieve
    /\ IdleWorkflow
    /\ IdleGateway
    /\ IdlePool
    /\ IdleChunker

NextSD ==
    /\ NextSessionDeletes
    /\ UNCHANGED <<basevars, psvars, spvars, spvars, qpvars, rkvars, cuvars, vcvars, wfvars, gwvars, wpvars, ckvars>>

SpecSD == InitSD /\ [][NextSD]_vars

\* the worker pool
InitWP ==
    /\ IdleBase
    /\ InitPool
    /\ IdleScrape
    /\ IdleSelect
    /\ IdleSelect
    /\ IdleSessions
    /\ IdleQuery
    /\ IdleRanker
    /\ IdleCleanup
    /\ IdleRetrieve
    /\ IdleWorkflow
    /\ IdleGateway
    /\ IdleSessions
    /\ IdleChunker

NextWP ==
    /\ NextPool
    /\ UNCHANGED <<basevars, psvars, spvars, spvars, ssvars, qpvars, rkvars, cuvars, vcvars, wfvars, gwvars, ssvars, ckvars>>

SpecWP == InitWP /\ [][NextWP]_vars

\* the chunker
InitCK ==
    /\ IdleBase
    /\ InitChunker
    /\ IdleScrape
    /\ IdleSelect
    /\ IdleSelect
    /\ IdleSessions
    /\ IdleQuery
    /\ IdleRanker
    /\ IdleCleanup
    /\ IdleRetrieve
    /\ IdleWorkflow
    /\ IdleGateway
    /\ IdleSessions
    /\ IdlePool

NextCK ==
    /\ NextChunker
    /\ UNCHANGED <<basevars, psvars, spvars, spvars, ssvars, qpvars, rkvars, cuvars, vcvars, wfvars, gwvars, ssvars, wpvars>>

SpecCK == InitCK /\ [][NextCK]_vars

(***************************************************************************)
(* Properties of the /deepsearch stream (specification Spec).              *)
(***************************************************************************)
TerminalPositions == {i \in 1..Len(events) : IsTerminal(events[i])}

ProgressPositions == {i \in 1..Len(events) : events[i].type = "progress"}

StageIndex(name) == CHOOSE k \in 1..Len(Stages) : Stages[k] = name

\* the payloads of the content events, in emission order
ContentOf(evs) ==
    SelectIdx([i \in 1..Len(evs) |-> evs[i].data],
              {i \in 1..Len(evs) : evs[i].type = "content"}, 1)

\* C1: every finished /deepsearch stream holds exactly one terminal event
\* (complete or error) and that event is the last one of the stream.
C1_OneTerminalEventLast ==
    pc = "closed" =>
        /\ Cardinality(TerminalPositions) = 1
        /\ IsTerminal(events[Len(events)])

\* C2: progress events appear in the fixed stage order, each stage at most
\* once; every content event comes after progress{synthesizing} and before
\* sources, carrying the LLM fragments in the order they were produced;
\* sources is immediately followed by complete.
C2_StageOrder ==
    /\ \A i, j \in ProgressPositions :
         i < j => StageIndex(events[i].data) < StageIndex(events[j].data)
    /\ \A i \in 1..Len(events) :
         events[i].type = "content" =>
            /\ \E j \in 1..(i - 1) : events[j] = StreamChunk("progress", "synthesizing")
            /\ \A j \in 1..(i - 1) : events[j].type \notin {"sources", "complete", "error"}
    /\ ContentOf(events) = answer_parts
    /\ SelectSeq(ContentOf(events), LAMBDA f : f # SynthesisErrorText) = llm_out
    /\ \A i \in 1..Len(events) :
         events[i].type = "sources" =>
            IF i = Len(events) THEN pc = "sources"
            ELSE events[i + 1].type = "complete"

\* a finished run that went through all five stages and streamed fragments
C2_Witness ==
    /\ pc = "closed"
    /\ Cardinality(ProgressPositions) = Len(Stages)
    /\ Len(llm_out) = MaxFragments
    /\ llm_out[1] # llm_out[2]
    /\ \E i \in 1..Len(events) : events[i].type = "complete"

(***************************************************************************)
(* Properties of the circuit breaker (specification SpecCB).               *)
(***************************************************************************)
RecordsFailure == cb'.total_failures = cb.total_failures + 1

RecordsSuccess == cb'.total_successes = cb.total_successes + 1

EntersCall == cb_calls' = cb_calls + 1

\* C3: a closed breaker opens, with last_failure_time set, at the N-th
\* consecutive counted failure, stays closed on fewer, and a success while
\* closed resets failure_count to 0.
C3_Step ==
    /\ (cb.state = "closed" /\ RecordsFailure) =>
          IF cb_consec' >= cb.failure_threshold
          THEN cb'.state = "open" /\ cb'.last_failure_time = Some(cb_now)
          ELSE cb'.state = "closed"
    /\ (cb.state = "closed" /\ RecordsSuccess) =>
          cb'.state = "closed" /\ cb'.failure_count = 0

C3_ClosedCounts ==
    cb.state = "closed" =>
        cb.failure_count = cb_consec /\ cb_consec < cb.failure_threshold

C3_OpensAtThreshold == [][C3_Step]_vars /\ []C3_ClosedCounts

\* the breaker has just opened after failure_threshold > 1 failures in a row
C3_Witness ==
    /\ cb.state = "open"
    /\ cb.failure_threshold > 1
    /\ cb_consec = cb.failure_threshold
    /\ cb.failure_count = cb.failure_threshold
    /\ cb.total_successes > 0

\* C4: while open and less than recovery_timeout after the last recorded
\* failure, call() is blocked and the wrapped function is not invoked; the
\* first call once recovery_timeout has elapsed moves the breaker to
\* half-open and invokes the function exactly once.
C4_Step ==
    (cb.state = "open" /\ EntersCall) =>
        IF cb_now - cb.last_failure_time[1] < cb.recovery_timeout
        THEN /\ cb_last' = "blocked_open"
             /\ cb_invoked' = cb_invoked
             /\ cb' = cb
        ELSE /\ cb_last' = "admitted"
             /\ cb_invoked' = cb_invoked + 1
             /\ cb'.state = "half_open"

C4_OpenBlocksUntilTimeout ==
    [][C4_Step]_vars /\ [](cb.state = "open" => cb.last_failure_time # None)

\* a call was blocked and, after the timeout, a later one became the probe
C4_Witness ==
    /\ cb.state = "half_open"
    /\ cb_last = "admitted"
    /\ cb_probes = 1
    /\ cb_in_flight = 1
    /\ cb_calls > cb_invoked
    /\ cb.recovery_timeout > 1

\* C5: between entering half-open and leaving it, at most
\* half_open_max_calls invocations of the wrapped function are admitted,
\* the call that triggered the transition included.
C5_HalfOpenProbeLimit ==
    cb.state = "half_open" => cb_probes <= cb.half_open_max_calls

\* C6: in half-open the K-th success in a row closes the breaker and zeroes
\* failure_count, success_count and half_open_calls; a counted failure
\* before that reopens it at once.
C6_Step ==
    /\ (cb.state = "half_open" /\ RecordsSuccess) =>
          IF cb_ho_success' >= cb.half_open_max_calls
          THEN /\ cb'.state = "closed"
               /\ cb'.failure_count = 0
               /\ cb'.success_count = 0
               /\ cb'.half_open_calls = 0
          ELSE cb'.state = "half_open"
    /\ (cb.state = "half_open" /\ RecordsFailure) => cb'.state = "open"

C6_HalfOpenCounts ==
    cb.state = "half_open" =>
        cb.success_count = cb_ho_success /\ cb_ho_success < cb.half_open_max_calls

C6_HalfOpenCloseOrReopen == [][C6_Step]_vars /\ []C6_HalfOpenCounts

\* the breaker closed again after half_open_max_calls > 1 probe successes
C6_Witness ==
    /\ cb.state = "closed"
    /\ cb.half_open_max_calls > 1
    /\ cb_ho_success = cb.half_open_max_calls
    /\ cb.failure_count = 0
    /\ cb.total_failures > 0

(***************************************************************************)
(* Properties of the token bucket (specification SpecTB).                  *)
(***************************************************************************)
\* the token count a read at time t observes
TokensAt(bucket, t) == _refill(bucket, t).tokens

\* C9: with no successful consume between t1 and t2,
\* tokens(t2) = min(C, tokens(t1) + r * (t2 - t1)), whatever refills, failed
\* consumes and status reads happened in between; and 0 <= tokens <= C.
C9_RefillLaw ==
    /\ tb_mark # None =>
          TokensAt(tb, now) =
             Min(Tokens(tb.capacity), tb_mark[1] + tb.refill_rate * (now - tb_mark[2]))
    /\ 0 <= tb.tokens
    /\ tb.tokens <= Tokens(tb.capacity)

\* t1 < t2 with a failed consume and further refills in between, the bucket
\* neither empty nor full at t1
C9_Witness ==
    /\ tb_mark # None
    /\ tb_mark[2] < now
    /\ tb_mark[2] < tb.last_refill
    /\ tb_since = 2
    /\ tb_result = FALSE
    /\ tb_mark[1] > 0
    /\ TokensAt(tb, now) = Tokens(tb.capacity)

(***************************************************************************)
(* Properties of the sliding window (specification SpecSW).                *)
(***************************************************************************)
\* the admissions recorded in requests that are less than window_size old
Recent(w, t) == {i \in 1..Len(w.requests) :
                    w.requests[i] > t - w.window_size * TicksPerSecond}

\* the admissions made in the interval (t - window_size, t]
AdmittedWithin(t) == {i \in 1..Len(sw_admitted) :
                        /\ sw_admitted[i] > t - sw.window_size * TicksPerSecond
                        /\ sw_admitted[i] <= t}

C10_Step ==
    (sw_calls' = sw_calls + 1) =>
        /\ sw_result' = (Cardinality(Recent(sw, now)) < sw.max_requests)
        /\ sw_result' = (Len(sw_admitted') = Len(sw_admitted) + 1)

C10_Bounded ==
    /\ Len(sw.requests) <= sw.max_requests
    /\ \A t \in 0..now : Cardinality(AdmittedWithin(t)) <= sw.max_requests

HasRoom(w, t) == Cardinality(Recent(w, t)) < w.max_requests

ProviderHasRoom(limiter, provider, t) ==
    provider # NoProvider =>
        \A i \in 1..Len(LimitNames) :
            HasRoom(provider_limits(limiter, provider)[LimitNames[i]], t)

BucketHoldsOne(limiter, user_id, user_tier, t) ==
    IF user_id \in DOMAIN limiter.user_buckets
    THEN LET b == limiter.user_buckets[user_id]
         IN  Min(Tokens(b.capacity), b.tokens + (t - b.last_refill) * b.refill_rate)
                >= Tokens(1)
    ELSE user_config[user_tier].capacity >= 1

C8_Step ==
    (rl_calls' = rl_calls + 1) =>
        (rl_result' =
            (/\ \A i \in 1..Len(LimitNames) : HasRoom(rl.global_windows[LimitNames[i]], now)
             /\ ProviderHasRoom(rl, rl_last'.provider, now)
             /\ BucketHoldsOne(rl, rl_last'.user_id, rl_last'.user_tier, now)))

\* C8: RateLimiter.is_allowed returns true exactly when, at the time of the
\* call, both global windows have room, both windows of the targeted
\* provider (if one is given) have room and the user's bucket holds at least
\* one token.
C8_AdmitIffAllLayers == [][C8_Step]_vars

\* a call denied by the user's bucket alone, after admitted ones
C8_Witness ==
    /\ rl_result = FALSE
    /\ rl_calls > rl_free[1]
    /\ rl_free[1] = MaxLimiterCalls
    /\ \A i \in 1..Len(LimitNames) :
          Len(rl.global_windows[LimitNames[i]].requests)
             < rl.global_windows[LimitNames[i]].max_requests
    /\ rl_last.user_id \in DOMAIN rl.user_buckets
    /\ rl.user_buckets[rl_last.user_id].tokens < Tokens(1)

(***************************************************************************)
(* Properties of the burst scenario (specification SpecS4).                *)
(***************************************************************************)
\* C7 as stated: through RateLimiter.is_allowed the first 100 calls of the
\* burst are admitted, the 101st is denied, and after the 2 second pause
\* exactly 2 further calls are admitted.
C7_LimiterAdmitsHundred ==
    s4_mode = "limiter" =>
        \A i \in 1..Len(s4_log) :
            s4_log[i] = (i <= DefaultTier.capacity
                         \/ i \in {BurstCalls + 1, BurstCalls + 2})

\* C7 amended: the 100 / 101st / 2 figures hold for the default-tier token
\* bucket taken alone; through RateLimiter.is_allowed the global
\* 50-per-second window admits only the first 50 calls of the burst and
\* denies calls 51 to 101, and after the pause the further calls are all
\* admitted.
C7_BucketAdmitsHundred ==
    /\ s4_mode = "bucket" =>
          \A i \in 1..Len(s4_log) :
              s4_log[i] = (i <= DefaultTier.capacity
                           \/ i \in {BurstCalls + 1, BurstCalls + 2})
    /\ s4_mode = "limiter" =>
          \A i \in 1..Len(s4_log) :
              s4_log[i] = (i <= GlobalWindows.requests_per_second.max_requests
                           \/ i > BurstCalls)

\* the whole scenario was played through the limiter, the burst spread
\* over more than one instant
C7_Witness ==
    /\ s4_mode = "limiter"
    /\ s4_phase = "after"
    /\ Len(s4_log) = BurstCalls + MaxFurtherCalls
    /\ now > 2 * OneSecond
    /\ ~s4_log[BurstCalls]
    /\ s4_log[BurstCalls + 1]

(***************************************************************************)
(* Properties of the search fan-out (specification SpecDD).                *)
(***************************************************************************)
\* the position of the first result of all_results with this URL
FirstWithUrl(url) ==
    CHOOSE i \in 1..Len(dd_all) :
        /\ dd_all[i].url = url
        /\ \A j \in 1..(i - 1) : dd_all[j].url # url

\* C11: deduplication returns at most one result per URL, none with an empty
\* URL, one for every non-empty URL gathered, and the result kept for a URL
\* is its first occurrence in the gathered sequence (title and source).
C11_KeepsFirstOccurrence ==
    dd_pc = "fused" =>
        /\ \A i, j \in 1..Len(dd_fused) :
             dd_fused[i].url = dd_fused[j].url => i = j
        /\ \A i \in 1..Len(dd_fused) : dd_fused[i].url # ""
        /\ {dd_fused[i].url : i \in 1..Len(dd_fused)}
              = {dd_all[i].url : i \in 1..Len(dd_all)} \ {""}
        /\ \A i \in 1..Len(dd_fused) :
             dd_fused[i] = dd_all[FirstWithUrl(dd_fused[i].url)]

(***************************************************************************)
(* Properties of execute_completion (specification SpecPM).                *)
(* Each request keeps what it did: tried (the providers execute_completion *)
(* was called on), failed (the providers whose frame caught an error),     *)
(* tested (the error_streak read by the fallback test), found (the list    *)
(* get_available_providers returned) and whose result or error came out.   *)
(***************************************************************************)
PMFinished(q) == q.pc \in {"returned", "raised"}

\* the providers found available other than p
OthersFound(q, p) == {q.found[1][i] : i \in 1..Len(q.found[1])} \ {p}

\* C12: after a failure on the selected provider, with fallback on, the
\* error_streak read by the handler below 3 and another provider found
\* available, exactly one other, available provider is called and its
\* result or error is the request's; otherwise the error of the selected
\* provider propagates.  No request calls more than two providers.
C12_FallbackOnce ==
    \A r \in PMRequests :
        LET q == pm_req[r] IN
        /\ Len(q.tried) <= 2
        /\ (PMFinished(q) /\ q.failed # <<>>) =>
              IF /\ q.fallback
                 /\ q.tested[1] < 3
                 /\ OthersFound(q, q.tried[1]) # {}
              THEN /\ Len(q.tried) = 2
                   /\ q.tried[2] \in OthersFound(q, q.tried[1])
                   /\ q.pc = "returned" => q.result_of = q.tried[2]
                   /\ q.pc = "raised" => q.error_of = q.tried[2]
              ELSE /\ q.tried = <<q.failed[1]>>
                   /\ q.pc = "raised"
                   /\ q.error_of = q.tried[1]

\* one request got its answer from the fallback provider while another,
\* on a provider with two earlier failures, got no fallback
C12_Witness ==
    \E r1, r2 \in PMRequests :
        /\ pm_req[r1].pc = "returned"
        /\ Len(pm_req[r1].tried) = 2
        /\ pm_req[r1].result_of = pm_req[r1].tried[2]
        /\ pm_req[r2].pc = "raised"
        /\ pm_req[r2].fallback
        /\ pm_req[r2].tested = <<3>>
        /\ pm_req[r2].tried = <<pm_req[r2].error_of>>

\* the frames of execute_completion(p, ...) in progress
FramesOn(p) ==
    {<<r, i>> \in PMRequests \X (1..2) :
        i <= Len(pm_req[r].frames) /\ pm_req[r].frames[i].provider = p}

\* C13: active_requests of every provider is the number of
\* execute_completion calls in progress on it: never negative, and back at
\* its value from before the requests once they have all exited, by
\* return, raise, fallback or cancellation.
C13_ActiveRequests ==
    \A p \in PMProviders :
        /\ pm_stats[p].active_requests >= 0
        /\ pm_stats[p].active_requests = Cardinality(FramesOn(p))
        /\ (\A r \in PMRequests : pm_req[r].frames = <<>>) =>
              pm_stats[p].active_requests = 0

\* a request was cancelled during its fallback call while another request
\* is in its own fallback call on the same two providers
C13_Witness ==
    \E r1, r2 \in PMRequests :
        /\ pm_req[r1].pc = "cancelled"
        /\ Len(pm_req[r1].tried) = 2
        /\ pm_req[r2].pc = "awaiting"
        /\ Len(pm_req[r2].frames) = 2
        /\ pm_req[r2].tried = pm_req[r1].tried
        /\ pm_stats[pm_req[r2].tried[1]].active_requests = 1

(***************************************************************************)
(* Properties of the streaming completion (specification SpecGS).          *)
(***************************************************************************)
ContentLines == {i \in 1..Len(gs_lines) : gs_lines[i].kind = "content"}

\* C14: a streaming completion calls one provider only.  Once a content
\* line has been written no other provider is called: every content line
\* carries the selected provider, and a failure of the provider after that
\* ends the stream with the error marker as the line after the fragments.
C14_NoFallbackAfterContent ==
    /\ ContentLines # {} =>
          /\ gs_invoked = <<gs_provider>>
          /\ \A i \in ContentLines : gs_lines[i].provider = gs_provider
    /\ gs_pc = "failed" =>
          /\ gs_lines[Len(gs_lines)] = ErrorLine(gs_provider)
          /\ ContentLines = 1..(Len(gs_lines) - 1)
          /\ gs_metrics = <<<<gs_provider, FALSE>>>>

\* the provider failed after two different fragments had been written
C14_Witness ==
    /\ gs_pc = "failed"
    /\ Len(gs_lines) >= 3
    /\ gs_lines[1].content # gs_lines[2].content
    /\ gs_lines[Len(gs_lines)].kind = "error"

(***************************************************************************)
(* Properties of the pipeline's stages (specifications Spec, SpecCancel).  *)
(***************************************************************************)
HasEvent(type) == \E i \in 1..Len(events) : events[i].type = type

\* C15: a run cancelled at a suspension point ends its stream with
\* error{cancelled} and holds no complete event.
C15_CancelledEmitsError ==
    pc = "cancelled" =>
        /\ events # <<>>
        /\ events[Len(events)] = StreamChunk("error", "cancelled")
        /\ ~HasEvent("complete")

\* C16: when the search stage yields no results (an empty answer of the
\* search gateway, or a failed call) the stream is progress{searching}
\* followed by one error event, the run is over, no other service was
\* called and there is no sources or complete event.
C16_NoResultsStops ==
    ("search" \in calls /\ search_results = <<>>) =>
        /\ events = <<StreamChunk("progress", "searching"),
                      StreamChunk("error", "No search results found")>>
        /\ pc = "closed"
        /\ calls = {"search"}
        /\ response = None

\* the call to the search gateway failed
C16_Witness ==
    /\ "search" \in faults
    /\ search_results = <<>>
    /\ Len(events) = 2

\* C17 as claimed: whenever complete was emitted the content fragments, in
\* emission order, join to complete.answer, whatever the toggles.
C17_ContentIsAnswer ==
    response # None => Join(ContentOf(events)) = response[1].answer

\* C17 amended: with synthesis on the content fragments join to
\* complete.answer; with synthesis off there is no content event and
\* complete.answer is the fixed text.
C17_ContentIsAnswerIfSynthesized ==
    response # None =>
        IF request.enable_synthesis
        THEN Join(ContentOf(events)) = response[1].answer
        ELSE /\ ContentOf(events) = <<>>
             /\ response[1].answer = SynthesisDisabledText

\* a synthesized answer of two fragments
C17_Witness ==
    /\ response # None
    /\ request.enable_synthesis
    /\ Len(ContentOf(events)) = 2
    /\ response[1].answer = "Hello"

\* the context the synthesis of this run is given
Context == _build_context(rag_chunks, search_results, scraped_content)

\* C18: in a run with RAG on in which the crawler failed for every URL,
\* whatever the vector store holds, complete carries results_scraped = 0
\* and chunks_retrieved = 0 and the synthesis context is made of the
\* search results' descriptions only.
C18_DegradedRun ==
    (/\ response # None
     /\ RagOn
     /\ "crawl" \in calls
     /\ scraped_content = <<>>) =>
        /\ response[1].results_scraped = 0
        /\ response[1].chunks_retrieved = 0
        /\ \A i \in 1..Len(Context) : Context[i].kind = "description"

\* C19: a run in which only the vector store failed (during embed, during
\* retrieve or both) ends without an error event, with a complete event
\* whose chunks_retrieved is 0, and its context holds no chunk.
C19_StoreFailureTolerated ==
    (/\ pc = "closed"
     /\ faults \cap {"embed", "query"} # {}
     /\ faults \subseteq {"embed", "query"}) =>
        /\ ~HasEvent("error")
        /\ response # None
        /\ response[1].chunks_retrieved = 0
        /\ \A i \in 1..Len(Context) : Context[i].kind # "chunk"

\* the results in s that were scraped successfully, in the order of s
ScrapedAmong(s) ==
    SelectSeq(s, LAMBDA u : \E j \in 1..Len(scraped_content) : scraped_content[j] = u)

\* C20 as claimed: the scrape stage returns its documents in the order in
\* which the crawler calls completed.
C20_CompletionOrder ==
    "crawl" \in calls => scraped_content = ScrapedAmong(scrape_order)

\* C20 amended: the scrape stage returns its documents in the rank order of
\* the search results, whatever the order in which the calls completed.
C20_InputOrder ==
    "crawl" \in calls => scraped_content = ScrapedAmong(search_results)

\* two documents were scraped and the second one completed first
C20_Witness ==
    /\ Len(scraped_content) = 2
    /\ scrape_order = <<search_results[2], search_results[1]>>


(***************************************************************************)
(* Properties of the scrape stage's dispatch (specification SpecPS).       *)
(***************************************************************************)
\* POST /crawl requests awaited at this instant
InFlight == {i \in 1..ps_n : ps_task[i] = "posting"}

\* C21: crawler calls are issued only for the first max_urls results, at
\* most one per result, and never more than `concurrency` of them are in
\* flight at the same instant.
C21_BoundedDispatch ==
    /\ \A i \in 1..ps_n : ps_posts[i] > 0 => i <= ps_max_urls
    /\ \A i \in 1..ps_n : ps_posts[i] <= 1
    /\ Cardinality(InFlight) <= ps_concurrency

\* more results than max_urls and more tasks than the semaphore admits:
\* the semaphore is exhausted while a task still waits, and a result
\* beyond max_urls exists
C21_Witness ==
    /\ ps_n > ps_max_urls
    /\ ps_max_urls > ps_concurrency
    /\ Cardinality(InFlight) = ps_concurrency
    /\ \E i \in 1..ps_n : ps_task[i] = "created"
    /\ \E i \in 1..ps_n : ps_task[i] = "done"

(***************************************************************************)
(* Properties of select_provider (specification SpecSP).                   *)
(***************************************************************************)
\* the providers that report available, whose breaker is not open and that
\* the call does not exclude
Eligible ==
    {p \in SPProviders :
        /\ p \in sp_reports
        /\ p \notin sp_open
        /\ \A i \in 1..Len(sp_args.exclude) : sp_args.exclude[i] # p}

\* C22: under every strategy, preferred provider and exclude list,
\* select_provider returns a provider only from those that report
\* available, have no open breaker and are not excluded; it returns none
\* exactly when there is no such provider; and the preferred provider is
\* returned exactly when it is one of them.
C22_SelectsEligible ==
    [][sp_pc = "called" /\ sp_pc' = "idle" =>
         /\ sp_result' # None => sp_result'[1] \in Eligible
         /\ sp_result' = None <=> Eligible = {}
         /\ sp_args.preferred_provider # None =>
              (sp_result' = sp_args.preferred_provider
                 <=> sp_args.preferred_provider[1] \in Eligible)]_vars

\* a call that passed over its preferred provider, whose breaker is open,
\* and over an excluded one, and returned the remaining provider
C22_Witness ==
    /\ sp_pc = "idle"
    /\ sp_args.preferred_provider # None
    /\ sp_args.preferred_provider[1] \in sp_reports \cap sp_open
    /\ Len(sp_args.exclude) = 1
    /\ sp_args.exclude[1] \in sp_reports \ sp_open
    /\ sp_result # None
    /\ sp_result # sp_args.preferred_provider
    /\ sp_result[1] # sp_args.exclude[1]

(***************************************************************************)
(* Properties of the round-robin selection (specification SpecRR).         *)
(***************************************************************************)
\* C30: n consecutive round-robin selections from one list of n available
\* providers return n distinct providers, and whenever the list has shrunk
\* or grown the index left by a round-robin selection addresses an element
\* of the list it chose from.
C30_RoundRobin ==
    /\ \A i, j \in 1..Len(sp_rr_run) : i # j => sp_rr_run[i] # sp_rr_run[j]
    /\ sp_rr_run # <<>> =>
         /\ sp_index < Len(sp_rr_avail)
         /\ sp_rr_run[Len(sp_rr_run)] = sp_rr_avail[sp_index + 1]

\* three selections from the same three providers, the last of which
\* wrapped the index around
C30_Witness ==
    /\ Len(sp_rr_avail) = 3
    /\ Len(sp_rr_run) = 3
    /\ sp_index = 0

(***************************************************************************)
(* Properties of the session store (specification SpecSS).                 *)
(***************************************************************************)
IsPrefix(s, t) == Len(s) <= Len(t) /\ \A i \in 1..Len(s) : s[i] = t[i]

\* C23: under any interleaving of add_message calls on one session, every
\* message whose call returned True is in the stored session afterwards,
\* and every write leaves the list stored before it as a prefix of the new
\* list.
C23_AppendOnly ==
    /\ [](\A c \in ss_acked : \E i \in 1..Len(ss_stored[1]) : ss_stored[1][i] = c)
    /\ [][ss_stored # None /\ ss_stored' # None
            => IsPrefix(ss_stored[1], ss_stored'[1])]_vars

(***************************************************************************)
(* Properties of the search adapters (specification SpecQP).               *)
(***************************************************************************)
\* the call was made and its transport or the parsing of its body failed
QueryFailed ==
    /\ ~qp_out[1].skipped
    /\ qp_in[1].redis_read = "ok"
    /\ \/ qp_in[1].http = "transport"
       \/ qp_in[1].body \in {"not_json", "no_key", "not_object"}

\* C24: query_provider never raises, whatever the HTTP call, the parsing
\* of the response and the breaker's store do; and every transport or
\* parse failure yields an empty result and is recorded on the provider's
\* breaker as exactly one failure and no success.
C24_TotalAdapter ==
    qp_out # None =>
      /\ qp_out[1].returned # "raised"
      /\ QueryFailed =>
           /\ qp_out[1].returned \in {"empty", "none"}
           /\ qp_out[1].recorded = <<"failure">>

(***************************************************************************)
(* Properties of the ranker (specification SpecRK).                        *)
(***************************************************************************)
KeyOf(x) == sort_key(rk_method, x)

\* C25: for every sort method the ranked list is a permutation of the list
\* passed, ordered by the method's key descending, and results with equal
\* keys keep the order they were passed in.
C25_StableSort ==
    rk_pc = "ranked" =>
      /\ Len(rk_output) = Len(rk_input)
      /\ \A i \in 1..Len(rk_input) :
           \E j \in 1..Len(rk_output) :
             /\ rk_output[j].place = i
             /\ KeyOf(rk_output[j]) = KeyOf(rk_input[i])
      /\ \A i, j \in 1..Len(rk_output) :
           i < j =>
             /\ ~TupleLess(KeyOf(rk_output[i]), KeyOf(rk_output[j]), 1)
             /\ KeyOf(rk_output[i]) = KeyOf(rk_output[j])
                  => rk_output[i].place < rk_output[j].place

\* a list sorted by date in which two results with equal keys were passed
\* on either side of a result that the sort moved to the front
C25_Witness ==
    /\ rk_pc = "ranked"
    /\ rk_method = "date"
    /\ Len(rk_output) = 3
    /\ rk_output[1].place = 2
    /\ rk_output[2].place = 1
    /\ rk_output[3].place = 3
    /\ KeyOf(rk_output[2]) = KeyOf(rk_output[3])

(***************************************************************************)
(* Properties of the circuit breaker under any exception (SpecCX).         *)
(***************************************************************************)
\* a step in which a call() ends with an exception of the wrapped function
\* that is not recorded as a failure
EndsUntracked ==
    /\ cb_in_flight' = cb_in_flight - 1
    /\ cb'.total_successes = cb.total_successes
    /\ cb'.total_failures = cb.total_failures

\* C26: when the wrapped function raises an exception outside the tracked
\* failure category, call() leaves state, failure_count, total_failures
\* and last_failure_time as they are and adds exactly one to total_calls.
C26_UntrackedException ==
    [][EndsUntracked =>
         /\ cb'.state = cb.state
         /\ cb'.failure_count = cb.failure_count
         /\ cb'.total_failures = cb.total_failures
         /\ cb'.last_failure_time = cb.last_failure_time
         /\ cb'.total_calls = cb.total_calls + 1]_vars

(***************************************************************************)
(* Properties of a refused consume (specification SpecTB).                 *)
(***************************************************************************)
\* the tokens the bucket holds at instant t, the refill up to t included
Level(bucket, t) ==
    Min(Tokens(bucket.capacity),
        bucket.tokens + (t - bucket.last_refill) * bucket.refill_rate)

\* a step that is a consume(n) on a bucket holding fewer than n tokens
ConsumeShort ==
    /\ tb_asked' > 0
    /\ now' = now
    /\ Level(tb, now) < Tokens(tb_asked')

\* C27: consume(n) on a bucket that holds fewer than n tokens returns
\* false and leaves the bucket's token count and last-refill timestamp as
\* they were before the call.
C27_RefusedConsumeNoMutation ==
    [][ConsumeShort =>
         /\ tb_result' = FALSE
         /\ tb'.tokens = tb.tokens
         /\ tb'.last_refill = tb.last_refill]_vars

\* C27, amended: consume(n) on a bucket that holds fewer than n tokens,
\* the refill up to now included, returns false and subtracts nothing: the
\* bucket afterwards is the bucket refilled up to now, holding as many
\* tokens at this instant as before the call.
C27_RefusedConsumeOnlyRefills ==
    [][ConsumeShort =>
         /\ tb_result' = FALSE
         /\ Level(tb', now) = Level(tb, now)
         /\ tb'.tokens = Level(tb, now)
         /\ tb'.last_refill = now]_vars

\* a consume refused after the clock has moved on: the bucket was refilled
\* by the call and still holds too little
C27_Witness ==
    /\ tb_asked > 0
    /\ ~tb_result
    /\ tb.last_refill = now
    /\ now > 0
    /\ 0 < tb.tokens
    /\ tb.tokens < Tokens(tb_asked)
    /\ tb.tokens < Tokens(tb.capacity)

(***************************************************************************)
(* Properties of the bucket cleanup (specification SpecCU).                *)
(***************************************************************************)
\* idle for more than one hour, and full once brought up to this instant
IdleAndFull(bucket) ==
    /\ cu_now - bucket.last_refill > CleanupAge
    /\ Level(bucket, cu_now) = Tokens(bucket.capacity)

\* C28: a cleanup pass removes every user bucket that has been idle for
\* more than one hour and is full when brought up to the current instant,
\* and removes no other bucket.
C28_CleanupRemovesIdleFull ==
    [][cu_pass' # cu_pass =>
         \A u \in Users :
            cu_buckets[u] # None =>
               (cu_buckets'[u] = None <=> IdleAndFull(cu_buckets[u][1]))]_vars

(***************************************************************************)
(* Properties of the retrieve stage (specification SpecVC).                *)
(***************************************************************************)
\* 1 - distance brought into [0,1], in steps
ClampedScore(d) ==
    IF d >= DistanceSteps THEN 0 ELSE DistanceSteps - d

\* C29: every chunk returned for a hit that has a distance carries the
\* similarity score 1 - distance clamped into [0,1], for distances above 1
\* as well.
C29_ClampedSimilarity ==
    (vc_pc = "returned" /\ vc_data.status = "ok" /\ vc_data.distances # None) =>
        \A i \in 1..Len(vc_chunks) :
            vc_chunks[i].similarity_score = Some(ClampedScore(vc_data.distances[1][i]))

(***************************************************************************)
(* Properties of the workflow engine (specification SpecWF).               *)
(***************************************************************************)
\* the tasks were executed in manifest order, none left out so far
RanInOrder == wf_ran = [i \in 1..(wf_next - 1) |-> i]

\* the last task of the manifest that carries the name, 0 if there is none
LastNamed(name) ==
    LET at == {i \in 1..Len(wf_tasks) : wf_tasks[i].name = name}
    IN  IF at = {} THEN 0 ELSE CHOOSE i \in at : \A j \in at : j <= i

\* every failed task is recorded with success = false and its error text
FailuresRecorded ==
    \A i \in 1..Len(wf_tasks) :
        (wf_tasks[i].outcome # "ok" /\ LastNamed(wf_tasks[i].name) = i) =>
            wf_results[wf_tasks[i].name] =
                Some(TaskResult(wf_tasks[i].name, FALSE, Some(wf_tasks[i].outcome)))

C32_FailedCallsOpenBreaker ==
    \A p \in GWNames :
        gw_failed_run[p] >= gw_breakers[p].failure_threshold =>
            gw_breakers[p].state = "open"

\* a request is served that prefers provider p while p reports available,
\* its breaker is open and the recovery timeout has elapsed
RequestAfterTimeout(p) ==
    /\ gw_requests' = gw_requests + 1
    /\ gw_last'.preferred = Some(p)
    /\ gw_last'.preferred_reports
    /\ gw_breakers[p].state = "open"
    /\ _should_attempt_reset(gw_breakers[p], gw_now)

\* C34: a provider whose breaker has opened is selectable again through
\* request traffic once the recovery timeout has elapsed since its last
\* failure: a request that prefers it is then served by it.
C34_OpenBreakerRecovers ==
    [][\A p \in GWNames : RequestAfterTimeout(p) => gw_last'.selected = Some(p)]_vars

\* request traffic and the passing of time never take a breaker out of
\* the open state
OpenStaysOpen ==
    [][\A p \in GWNames :
          gw_breakers[p].state = "open" => gw_breakers'[p].state = "open"]_vars

\* C37: for a non-streaming request the metrics service receives exactly
\* one record per provider call, naming the provider called and carrying
\* the outcome of that call.
C37_OneRecordPerInvocation ==
    (gw_last.status \in {"ok", "error"} /\ ~gw_last.stream) =>
        gw_last.records = gw_last.invoked

(***************************************************************************)
(* Further properties of the circuit breaker (specification SpecCX).       *)
(***************************************************************************)
\* C35: a half-open breaker with no call in flight admits a further
\* call(): with none in flight nothing else can take it to closed or open,
\* so otherwise it would stay half-open for ever.
C35_HalfOpenNotStuck ==
    (cb.state = "half_open" /\ cb_in_flight = 0) =>
        call_admission(cb, cb_now)[2] = "admitted"

(***************************************************************************)
(* Further properties of RateLimiter.is_allowed (specification SpecRL).    *)
(***************************************************************************)
\* the window's queue holds what it held before, expired entries aside
NothingAdmitted(before, after, t) ==
    after.requests = PopOld(before.requests, t - before.window_size * TicksPerSecond)

\* the tokens the user's bucket holds at instant t
UserLevel(limiter, user_id, user_tier, t) ==
    IF user_id \in DOMAIN limiter.user_buckets
    THEN Level(limiter.user_buckets[user_id], t)
    ELSE Tokens(user_config[user_tier].capacity)

\* C36: a request denied by RateLimiter.is_allowed consumes no capacity:
\* no admission is added to any global or per-provider window, and the
\* user's bucket holds as many tokens as before the call.
C36_DeniedConsumesNothing ==
    [][(rl_calls' = rl_calls + 1 /\ rl_result' = FALSE) =>
          /\ \A i \in 1..Len(LimitNames) :
                NothingAdmitted(rl.global_windows[LimitNames[i]],
                                rl'.global_windows[LimitNames[i]], now)
          /\ rl_last'.provider # NoProvider =>
                \A i \in 1..Len(LimitNames) :
                   NothingAdmitted(provider_limits(rl, rl_last'.provider)[LimitNames[i]],
                                   provider_limits(rl', rl_last'.provider)[LimitNames[i]],
                                   now)
          /\ UserLevel(rl', rl_last'.user_id, rl_last'.user_tier, now)
                = UserLevel(rl, rl_last'.user_id, rl_last'.user_tier, now)]_vars

(***************************************************************************)
(* Properties of the session store with deletion (specification SpecSD).   *)
(***************************************************************************)
\* C38: once delete_session has returned True, get_session finds no
\* session under that id any more, whatever add_message calls run
\* alongside.
C38_DeletedStaysDeleted ==
    ss_deleted => ss_stored = None

(***************************************************************************)
(* Properties of the worker pool (specification SpecWP).                   *)
(***************************************************************************)
\* C33: when a proxied request ends, on whatever path, the worker that
\* get_idle_worker marked BUSY for it is IDLE again.
C33_WorkerReleased ==
    [][\A r \in PoolRequests :
          (wp_req[r].pc \in InFlightPositions /\ wp_req'[r].pc = "done") =>
              wp_states'[wp_req[r].worker] = "IDLE"]_vars

\* C39: no worker is assigned to two proxied requests in flight at once.
C39_OneRequestPerWorker ==
    \A r, q \in PoolRequests :
        (r # q /\ wp_req[r].pc \in InFlightPositions
               /\ wp_req[q].pc \in InFlightPositions) =>
            wp_req[r].worker # wp_req[q].worker

(***************************************************************************)
(* Properties of the chunker (specification SpecCK).                       *)
(***************************************************************************)
\* C40: the chunker terminates for every text, chunk_size > 0 and
\* chunk_overlap >= 0 with chunks of chunk_size characters at most: every
\* iteration moves start forward (the loop ends once start reaches the end
\* of the text, so it ends exactly if start keeps growing), and no chunk is
\* longer than chunk_size.
C40_ChunkerTerminates ==
    /\ [][ck_chunks' # ck_chunks => ck_start' > ck_start]_vars
    /\ [](\A i \in 1..Len(ck_chunks) : ck_chunks[i][2] - ck_chunks[i][1] <= ck_size)

====
